---------------------------- MODULE Spec2Model ----------------------------
(***************************************************************************)
(* A state-machine model of starry_process.sp: the construction of         *)
(* StarryProcess objects, their composition into StarryProcessSum objects  *)
(* (__add__ / StarryProcessSum.__init__), and the sampling entry points    *)
(* that consume the shared random stream.                                  *)
(*                                                                         *)
(* Objects live in a heap (a sequence; the index is the object identity).  *)
(* Random streams live in a second heap so that two processes can hold     *)
(* the very same stream object.                                            *)
(*                                                                         *)
(* Numbers are exact rationals <<num, den>> (den > 0, lowest terms).       *)
(* The Cholesky factor of a matrix M is held as the pair (L, D) of its     *)
(* L D L^T factorisation: the factor itself is L * sqrt(D).                *)
(***************************************************************************)
EXTENDS Integers, Sequences, FiniteSets, TLC

(***************************************************************************)
(* Bounds of the model.                                                    *)
(***************************************************************************)
\* number of spherical-harmonic coefficients the model carries per process
NCoef == 2
\* capacity of the object heap
MaxProcs == 3
\* total number of draws from random streams in one behaviour
MaxDraws == 1

(***************************************************************************)
(* Exact rational arithmetic.                                              *)
(***************************************************************************)
Abs(x) == IF x < 0 THEN -x ELSE x

RECURSIVE Gcd(_, _)
Gcd(a, b) == IF b = 0 THEN a ELSE Gcd(b, a % b)

Rat(n, d) ==
    LET g == Gcd(Abs(n), Abs(d))
        s == IF d < 0 THEN -1 ELSE 1
    IN  <<(s * n) \div g, (s * d) \div g>>

RInt(n) == <<n, 1>>
\* (common factors are cancelled before multiplying, to keep numbers small)
RAdd(x, y) ==
    LET g == Gcd(x[2], y[2])
    IN  Rat(x[1] * (y[2] \div g) + y[1] * (x[2] \div g), (x[2] \div g) * y[2])
RNeg(x) == <<-x[1], x[2]>>
RSub(x, y) == RAdd(x, RNeg(y))
RMul(x, y) ==
    LET a == Rat(x[1], y[2])
        b == Rat(y[1], x[2])
    IN  <<a[1] * b[1], a[2] * b[2]>>
RInv(x) == IF x[1] < 0 THEN <<-x[2], -x[1]>> ELSE <<x[2], x[1]>>
RDiv(x, y) == RMul(x, RInv(y))
RZero == RInt(0)
ROne == RInt(1)

(***************************************************************************)
(* Vectors <<x_1, ..., x_n>> and square matrices <<row_1, ..., row_n>> of  *)
(* rationals, n = NCoef.                                                   *)
(***************************************************************************)
Idx == 1..NCoef

\* <<F(1), ..., F(n)>>
RECURSIVE Tab(_, _)
Tab(F(_), n) == IF n = 0 THEN <<>> ELSE Append(Tab(F, n - 1), F(n))

\* F(1) + ... + F(n)
RECURSIVE RSum(_, _)
RSum(F(_), n) == IF n = 0 THEN RZero ELSE RAdd(RSum(F, n - 1), F(n))

Vec(F(_)) == Tab(F, NCoef)
Mat(F(_, _)) == Tab(LAMBDA i : Tab(LAMBDA j : F(i, j), NCoef), NCoef)

VecAdd(u, v) == Vec(LAMBDA i : RAdd(u[i], v[i]))
MatAdd(A, B) == Mat(LAMBDA i, j : RAdd(A[i][j], B[i][j]))
VecScale(k, v) == Vec(LAMBDA i : RMul(RInt(k), v[i]))
MatScale(k, A) == Mat(LAMBDA i, j : RMul(RInt(k), A[i][j]))
ZeroVec == Vec(LAMBDA i : RZero)
\* tt.eye((ydeg + 1) ** 2), on the coefficients the model carries
Eye == Mat(LAMBDA i, j : IF i = j THEN ROne ELSE RZero)
Col(A, j) == Vec(LAMBDA i : A[i][j])
Set(v, i, x) == Vec(LAMBDA k : IF k = i THEN x ELSE v[k])

MatVec(A, v) == Vec(LAMBDA i : RSum(LAMBDA k : RMul(A[i][k], v[k]), NCoef))
MatMul(A, B) ==
    Mat(LAMBDA i, j : RSum(LAMBDA k : RMul(A[i][k], B[k][j]), NCoef))

(***************************************************************************)
(* cho_factor: the lower Cholesky factor of a symmetric positive-definite  *)
(* matrix, computed column by column.  The result [L, D] stands for the    *)
(* factor L * sqrt(D): L is unit lower triangular, D the pivots.           *)
(***************************************************************************)
\* pivot j, given the columns 1..j-1 of L and the pivots 1..j-1
Pivot(M, L, D, j) ==
    RSub(M[j][j], RSum(LAMBDA k : RMul(RMul(L[j][k], L[j][k]), D[k]), j - 1))

\* entry (i, j), i > j, of L, given pivot j
Below(M, L, D, i, j, dj) ==
    RDiv(RSub(M[i][j],
              RSum(LAMBDA k : RMul(RMul(L[i][k], L[j][k]), D[k]), j - 1)),
         dj)

RECURSIVE FactorFrom(_, _, _, _)
FactorFrom(M, L, D, j) ==
    IF j > NCoef THEN [L |-> L, D |-> D]
    ELSE LET dj == Pivot(M, L, D, j)
             L2 == Mat(LAMBDA i, k : IF k = j /\ i > j
                                       THEN Below(M, L, D, i, j, dj)
                                       ELSE L[i][k])
         IN  FactorFrom(M, L2, Set(D, j, dj), j + 1)

cho_factor(M) == FactorFrom(M, Eye, ZeroVec, 1)

(***************************************************************************)
(* cho_solve(c, b): the solution x of (L D L^T) x = b by forward           *)
(* substitution, scaling by the pivots, and back substitution.             *)
(***************************************************************************)
RECURSIVE Forward(_, _, _, _)
Forward(L, b, y, i) ==
    IF i > NCoef THEN y
    ELSE LET yi == RSub(b[i], RSum(LAMBDA k : RMul(L[i][k], y[k]), i - 1))
         IN  Forward(L, b, Set(y, i, yi), i + 1)

RECURSIVE Backward(_, _, _, _)
Backward(L, z, x, i) ==
    IF i < 1 THEN x
    ELSE LET xi == RSub(z[i], RSum(LAMBDA k : IF k > i
                                                 THEN RMul(L[k][i], x[k])
                                                 ELSE RZero, NCoef))
         IN  Backward(L, z, Set(x, i, xi), i - 1)

cho_solve_vec(c, b) ==
    LET y == Forward(c.L, b, ZeroVec, 1)
        z == Vec(LAMBDA k : RDiv(y[k], c.D[k]))
    IN  Backward(c.L, z, ZeroVec, NCoef)

cho_solve_mat(c, B) ==
    LET cols == Vec(LAMBDA j : cho_solve_vec(c, Col(B, j)))
    IN  Mat(LAMBDA i, j : cols[j][i])

(***************************************************************************)
(* Program constants.                                                      *)
(***************************************************************************)
DefaultYdeg == 15
DefaultUdeg == 2
DefaultCovpts == 300
DefaultSeed == 0
MinYdeg == 5
MinUdeg == 0
\* defaults["normalization_zmax"] = 0.023
DefaultZmax == <<23, 1000>>

\* Python's None
None == <<>>
Some(x) == <<x>>

\* error messages (the source's backquotes are written as quotes)
NoError == "ok"
ErrYdegMin == "Degree of map must be >= 5."
ErrUdegMin == "Degree of limb darkening must be >= 0."
ErrNotProcess == "Can only add instances of 'StarryProcess' to each other."
ErrYdeg == "Mismatch in 'ydeg'."
ErrUdeg == "Mismatch in 'udeg'."
ErrNormalized == "Mismatch in 'normalized'."
ErrInclination == "Mismatch in 'marginalize_over_inclination'."
ErrCovpts == "Mismatch in 'covpts'."
ErrTimeVariable ==
    "Sums of 'StarryProcess' instances not implemented for time-variable surfaces."
ErrCondInclination == "Not yet implemented when marginalizing over inclination."
ErrCondNormalized == "Not yet implemented when the flux is normalized."
ErrCondTimeVariable == "Not yet implemented for time-variable maps."

(***************************************************************************)
(* The moment chain (size -> latitude -> longitude -> contrast) is an      *)
(* external collaborator: for a spot population 'pop' it yields a mean     *)
(* vector and a symmetric positive-definite covariance matrix.             *)
(***************************************************************************)
PopSet == {1, 2, 3}
ContrastMean(pop) == Vec(LAMBDA i : RInt(pop * i - 2))
ContrastCov(pop) == Mat(LAMBDA i, j : IF i = j THEN RInt(pop + i) ELSE ROne)

(***************************************************************************)
(* Constructor arguments.                                                  *)
(***************************************************************************)
Args(ydeg, udeg, normalized, moi, covpts, tau, pop) ==
    [ydeg |-> ydeg, udeg |-> udeg, normalized |-> normalized,
     marginalize_over_inclination |-> moi, covpts |-> covpts, tau |-> tau,
     pop |-> pop, seed |-> DefaultSeed]

\* every valid combination of two values per field
AllArgs ==
    {Args(y, u, n, m, c, t, p) :
        y \in {DefaultYdeg, MinYdeg}, u \in {DefaultUdeg, MinUdeg},
        n \in BOOLEAN, m \in BOOLEAN,
        c \in {DefaultCovpts, DefaultCovpts + 1},
        t \in {None, Some(1)}, p \in PopSet}

DefaultArgs(pop) ==
    Args(DefaultYdeg, DefaultUdeg, TRUE, TRUE, DefaultCovpts, None, pop)

(***************************************************************************)
(* Keyword arguments.  A keyword that is not passed is absent from the     *)
(* record; one that is passed holds None or Some(value).                   *)
(***************************************************************************)
\* kwargs.get(key, default)
Kw(a, key, default) == IF key \in DOMAIN a THEN a[key] ELSE default

DefaultA == <<2, 5>>
DefaultB == <<27, 100>>
ErrLatitude == "Must provide either 'a' and 'b' *or* 'mu' and 'sigma'."

\* the latitude transform and its inverse: mode and spread in degrees to
\* shape parameters in (0, 1)
gauss2beta(mu, sigma) == [a |-> RDiv(mu, RInt(90)), b |-> RDiv(sigma, RInt(45))]
beta2gauss(a, b) == <<RMul(a, RInt(90)), RMul(b, RInt(45))>>

\* (a and b not looked at when mu and sigma are given)
LatitudeErrorLax(a) ==
    IF Kw(a, "mu", None) = None /\ Kw(a, "sigma", None) = None THEN NoError
    ELSE IF Kw(a, "mu", None) # None /\ Kw(a, "sigma", None) # None THEN NoError
    ELSE ErrLatitude

\* the three branches on mu, sigma, a and b
LatitudeError(a) ==
    IF Kw(a, "mu", None) = None /\ Kw(a, "sigma", None) = None THEN NoError
    ELSE IF (Kw(a, "a", None) = None /\ Kw(a, "b", None) = None)
              /\ (Kw(a, "mu", None) # None /\ Kw(a, "sigma", None) # None)
         THEN NoError
    ELSE ErrLatitude

\* the a and b handed to the latitude stage
LatitudeShape(a) ==
    IF Kw(a, "mu", None) = None /\ Kw(a, "sigma", None) = None
    THEN [a |-> Kw(a, "a", Some(DefaultA)), b |-> Kw(a, "b", Some(DefaultB))]
    ELSE [a |-> Some(gauss2beta(a.mu[1], a.sigma[1]).a),
          b |-> Some(gauss2beta(a.mu[1], a.sigma[1]).b)]

(***************************************************************************)
(* Settings and hyperparameters with defaults.                             *)
(***************************************************************************)
DefaultNormN == 20
DefaultMx == 300
DefaultMy == 150
DefaultR == 20
DefaultN == 10
DefaultC == <<1, 10>>

\* the keyword arguments left in kwargs once the constructor has taken its
\* named parameters and popped mu and sigma (and a and b, when neither mu
\* nor sigma is given); 'pop' stands for the moment chain and is no keyword
ExtraKwargs(a) ==
    LET named == {"r", "dr", "c", "n", "tau", "temporal_kernel",
                  "marginalize_over_inclination", "normalized", "covpts",
                  "mu", "sigma", "pop"}
        popped == IF Kw(a, "mu", None) = None /\ Kw(a, "sigma", None) = None
                  THEN {"a", "b"} ELSE {}
    IN  [k \in DOMAIN a \ (named \cup popped) |-> a[k]]

\* the size stage keeps its angles in radians (pi taken as 22/7)
Pi == <<22, 7>>
SizeIntegral(r, dr) ==
    [r |-> RMul(r, RDiv(Pi, RInt(180))),
     dr |-> IF dr = None THEN None ELSE Some(RMul(dr[1], RDiv(Pi, RInt(180))))]

(***************************************************************************)
(* StarryProcess.__init__: the object built from valid arguments, holding  *)
(* the random stream 'sid'.                                                *)
(***************************************************************************)
StarryProcessInit(a, sid) ==
    LET mean == ContrastMean(a.pop)
        cov == ContrastCov(a.pop)
        cho == cho_factor(cov)
    IN  [kind |-> "leaf",
         tau |-> IF a.tau = None THEN 0 ELSE a.tau[1],
         time_variable |-> a.tau # None,
         temporal_kernel |-> IF a.tau = None THEN "None" ELSE "Matern32Kernel",
         ydeg |-> a.ydeg,
         udeg |-> a.udeg,
         nylm |-> (a.ydeg + 1) * (a.ydeg + 1),
         covpts |-> a.covpts,
         normalized |-> a.normalized,
         normzmax |-> IF "normalization_zmax" \in DOMAIN a
                      THEN a.normalization_zmax ELSE DefaultZmax,
         pop |-> a.pop,
         normN |-> Kw(a, "normalization_order", DefaultNormN),
         get_alpha_beta |-> [N |-> Kw(a, "normalization_order", DefaultNormN)],
         kwargs |-> ExtraKwargs(a),
         mx |-> Kw(a, "mx", DefaultMx),
         my |-> Kw(a, "my", DefaultMy),
         size |-> SizeIntegral(Kw(a, "r", RInt(DefaultR)), Kw(a, "dr", None)),
         latitude |-> LatitudeShape(a),
         contrast |-> [c |-> Kw(a, "c", DefaultC), n |-> Kw(a, "n", RInt(DefaultN))],
         mean_ylm |-> mean,
         cov_ylm |-> cov,
         cho_cov_ylm |-> cho,
         LInv |-> cho_solve_mat(cho, Eye),
         LInvmu |-> cho_solve_vec(cho, mean),
         marginalize_over_inclination |-> a.marginalize_over_inclination,
         random |-> sid,
         children |-> <<>>]

\* (the limb-darkening degree not checked)
InitErrorNoUdeg(a) ==
    IF LatitudeError(a) # NoError THEN LatitudeError(a)
    ELSE IF a.ydeg < MinYdeg THEN ErrYdegMin
    ELSE NoError

\* the checks of StarryProcess.__init__, in order
InitError(a) ==
    IF LatitudeError(a) # NoError THEN LatitudeError(a)
    ELSE IF a.ydeg < MinYdeg THEN ErrYdegMin
    ELSE IF a.udeg < MinUdeg THEN ErrUdegMin
    ELSE NoError

(***************************************************************************)
(* StarryProcessSum.__init__(first, second) on the heap h.  'second' is an *)
(* object identity, or 0 for a value that is not a process.                *)
(***************************************************************************)
\* (the covpts assertion left out)
SumErrorNoCovpts(h, first, second) ==
    IF second = 0 THEN ErrNotProcess
    ELSE IF h[first].ydeg # h[second].ydeg THEN ErrYdeg
    ELSE IF h[first].udeg # h[second].udeg THEN ErrUdeg
    ELSE IF h[first].normalized # h[second].normalized THEN ErrNormalized
    ELSE IF h[first].marginalize_over_inclination
              # h[second].marginalize_over_inclination THEN ErrInclination
    ELSE IF ~(h[first].time_variable = FALSE /\ h[second].time_variable = FALSE)
         THEN ErrTimeVariable
    ELSE NoError

\* (the udeg assertion placed before the ydeg assertion)
SumErrorUdegFirst(h, first, second) ==
    IF second = 0 THEN ErrNotProcess
    ELSE IF h[first].udeg # h[second].udeg THEN ErrUdeg
    ELSE IF h[first].ydeg # h[second].ydeg THEN ErrYdeg
    ELSE IF h[first].normalized # h[second].normalized THEN ErrNormalized
    ELSE IF h[first].marginalize_over_inclination
              # h[second].marginalize_over_inclination THEN ErrInclination
    ELSE IF h[first].covpts # h[second].covpts THEN ErrCovpts
    ELSE IF ~(h[first].time_variable = FALSE /\ h[second].time_variable = FALSE)
         THEN ErrTimeVariable
    ELSE NoError

\* (only the first operand's time variability asserted)
SumErrorFirstTimeVariable(h, first, second) ==
    IF second = 0 THEN ErrNotProcess
    ELSE IF h[first].ydeg # h[second].ydeg THEN ErrYdeg
    ELSE IF h[first].udeg # h[second].udeg THEN ErrUdeg
    ELSE IF h[first].normalized # h[second].normalized THEN ErrNormalized
    ELSE IF h[first].marginalize_over_inclination
              # h[second].marginalize_over_inclination THEN ErrInclination
    ELSE IF h[first].covpts # h[second].covpts THEN ErrCovpts
    ELSE IF ~(h[first].time_variable = FALSE) THEN ErrTimeVariable
    ELSE NoError

\* the assertions, in order
SumError(h, first, second) ==
    IF second = 0 THEN ErrNotProcess
    ELSE IF h[first].ydeg # h[second].ydeg THEN ErrYdeg
    ELSE IF h[first].udeg # h[second].udeg THEN ErrUdeg
    ELSE IF h[first].normalized # h[second].normalized THEN ErrNormalized
    ELSE IF h[first].marginalize_over_inclination
              # h[second].marginalize_over_inclination THEN ErrInclination
    ELSE IF h[first].covpts # h[second].covpts THEN ErrCovpts
    ELSE IF ~(h[first].time_variable = FALSE /\ h[second].time_variable = FALSE)
         THEN ErrTimeVariable
    ELSE NoError

\* hasattr(child, "_children")
HasChildren(p) == p.kind = "sum"

\* (the operands appended as they are, without flattening)
SumChildrenNested(h, first, second) == <<first, second>>

\* the running list of children
SumChildren(h, first, second) ==
    (IF HasChildren(h[first]) THEN h[first].children ELSE <<first>>)
    \o (IF HasChildren(h[second]) THEN h[second].children ELSE <<second>>)

\* (the second operand's stream taken)
SumRandomSecond(h, first, second) == h[second].random

\* the random stream of the sum
SumRandom(h, first, second) == h[first].random

\* (the last child's mean added instead of the second operand's)
SumMeanLastChild(h, first, second) ==
    LET last == IF HasChildren(h[second])
                THEN h[second].children[Len(h[second].children)]
                ELSE second
    IN  VecAdd(h[first].mean_ylm, h[last].mean_ylm)

\* (the second operand's covariance forgotten)
SumCovFirstOnly(h, first, second) == h[first].cov_ylm

\* the summed random variables
SumMean(h, first, second) == VecAdd(h[first].mean_ylm, h[second].mean_ylm)
SumCov(h, first, second) == MatAdd(h[first].cov_ylm, h[second].cov_ylm)

\* (the first operand's precision matrix kept)
SumLInvInherited(h, first, second, cho) == h[first].LInv

\* the cached factorisation of a covariance and a mean
SumCho(h, first, second, cov) == cho_factor(cov)
SumLInv(h, first, second, cho) == cho_solve_mat(cho, Eye)
SumLInvmu(h, first, second, cho, mean) == cho_solve_vec(cho, mean)

\* (the normalization and rendering settings taken from the second operand)
SumSettingsFromSecond(h, first, second) == h[second]

\* the operand whose normalization order and limit, alpha-beta operator,
\* keyword arguments and rendering resolution the sum takes
SumSettingsFrom(h, first, second) == h[first]

StarryProcessSumInit(h, first, second) ==
    LET mean == SumMean(h, first, second)
        cov == SumCov(h, first, second)
        cho == SumCho(h, first, second, cov)
    IN  [kind |-> "sum",
         tau |-> 0,
         time_variable |-> FALSE,
         temporal_kernel |-> "unset",
         ydeg |-> h[first].ydeg,
         udeg |-> h[first].udeg,
         nylm |-> h[first].nylm,
         covpts |-> h[first].covpts,
         normalized |-> h[first].normalized,
         normzmax |-> SumSettingsFrom(h, first, second).normzmax,
         pop |-> 0,
         normN |-> SumSettingsFrom(h, first, second).normN,
         get_alpha_beta |-> SumSettingsFrom(h, first, second).get_alpha_beta,
         kwargs |-> SumSettingsFrom(h, first, second).kwargs,
         mx |-> SumSettingsFrom(h, first, second).mx,
         my |-> SumSettingsFrom(h, first, second).my,
         size |-> None,
         latitude |-> None,
         contrast |-> None,
         mean_ylm |-> mean,
         cov_ylm |-> cov,
         cho_cov_ylm |-> cho,
         LInv |-> SumLInv(h, first, second, cho),
         LInvmu |-> SumLInvmu(h, first, second, cho, mean),
         marginalize_over_inclination |-> h[first].marginalize_over_inclination,
         random |-> SumRandom(h, first, second),
         children |-> SumChildren(h, first, second)]

\* (the first operand's children list aliased, then extended in place)
HeapAfterSumAliased(h, first, second) ==
    LET new == StarryProcessSumInit(h, first, second)
    IN  Append(IF HasChildren(h[first])
               THEN [h EXCEPT ![first].children = new.children]
               ELSE h,
               new)

\* the heap after a successful StarryProcessSum(first, second)
HeapAfterSum(h, first, second) ==
    Append(h, StarryProcessSumInit(h, first, second))

(***************************************************************************)
(* sample_ylm_conditional: the not-implemented checks, in order.           *)
(***************************************************************************)
\* (the normalized check placed before the inclination check)
ConditionalErrorNormalizedFirst(p) ==
    IF p.normalized THEN ErrCondNormalized
    ELSE IF p.marginalize_over_inclination THEN ErrCondInclination
    ELSE IF p.time_variable THEN ErrCondTimeVariable
    ELSE NoError

ConditionalError(p) ==
    IF p.marginalize_over_inclination THEN ErrCondInclination
    ELSE IF p.normalized THEN ErrCondNormalized
    ELSE IF p.time_variable THEN ErrCondTimeVariable
    ELSE NoError

(***************************************************************************)
(* State.                                                                  *)
(*   heap     the process objects, by identity                             *)
(*   streams  the RandomStreams objects, by identity: the seed and the     *)
(*            number of draws made so far                                  *)
(*   parents  history: for each object, the operands it was composed from  *)
(*            (<<0, 0>> for a leaf)                                        *)
(*   lastOp   history: the last call, the object it returned or was       *)
(*            invoked on (0 if none) and the error it raised               *)
(***************************************************************************)
VARIABLES heap, streams, parents, lastOp
vars == <<heap, streams, parents, lastOp>>

Op(op, id, err) == [op |-> op, id |-> id, err |-> err]

Procs == 1..Len(heap)
RECURSIVE DrawsUpTo(_)
DrawsUpTo(k) == IF k = 0 THEN 0 ELSE DrawsUpTo(k - 1) + streams[k].draws
TotalDraws == DrawsUpTo(Len(streams))

\* StarryProcess(**a), on a heap of capacity cap
Construct(a, cap) ==
    /\ Len(heap) < cap
    /\ LET err == InitError(a)
           new == Len(heap) + 1
       IN  IF err # NoError
           THEN /\ lastOp' = Op("construct", 0, err)
                /\ UNCHANGED <<heap, streams, parents>>
           ELSE /\ heap' = Append(heap, StarryProcessInit(a, Len(streams) + 1))
                /\ streams' = Append(streams, [seed |-> a.seed, draws |-> 0])
                /\ parents' = Append(parents, <<0, 0>>)
                /\ lastOp' = Op("construct", new, NoError)

\* heap[first] + heap[second], or heap[first] + <not a process> if second = 0
Add(first, second, cap) ==
    LET err == SumError(heap, first, second)
        new == Len(heap) + 1
    IN  /\ err = NoError => Len(heap) < cap
        /\ UNCHANGED streams
        /\ IF err # NoError
           THEN /\ lastOp' = Op("add", 0, err)
                /\ UNCHANGED <<heap, parents>>
           ELSE /\ heap' = HeapAfterSum(heap, first, second)
                /\ parents' = Append(parents, <<first, second>>)
                /\ lastOp' = Op("add", new, NoError)

\* heap[p].sample_ylm(): one draw from the process's stream
SampleYlm(p) ==
    /\ TotalDraws < MaxDraws
    /\ streams' = [streams EXCEPT ![heap[p].random].draws = @ + 1]
    /\ lastOp' = Op("sample_ylm", p, NoError)
    /\ UNCHANGED <<heap, parents>>

\* heap[p].sample_ylm_conditional(t, flux, data_cov)
SampleYlmConditional(p) ==
    LET err == ConditionalError(heap[p])
    IN  /\ err = NoError => TotalDraws < MaxDraws
        /\ lastOp' = Op("sample_ylm_conditional", p, err)
        /\ streams' = IF err = NoError
                      THEN [streams EXCEPT ![heap[p].random].draws = @ + 1]
                      ELSE streams
        /\ UNCHANGED <<heap, parents>>

\* the state in which the leaves built from the arguments as[1..n] exist
Built(as) ==
    /\ heap = Tab(LAMBDA k : StarryProcessInit(as[k], k), Len(as))
    /\ streams = Tab(LAMBDA k : [seed |-> as[k].seed, draws |-> 0], Len(as))
    /\ parents = Tab(LAMBDA k : <<0, 0>>, Len(as))
    /\ lastOp = Op("construct", Len(as), NoError)

(***************************************************************************)
(* Spec: a caller that constructs and adds processes freely.               *)
(***************************************************************************)
\* the arguments the caller of Spec constructs processes with
MainArgs ==
    {DefaultArgs(1), DefaultArgs(2),
     Args(DefaultYdeg, DefaultUdeg, TRUE, TRUE, DefaultCovpts, Some(1), 1),
     Args(MinYdeg, MinUdeg, FALSE, FALSE, DefaultCovpts + 1, None, 3)}

Init ==
    /\ heap = <<>>
    /\ streams = <<>>
    /\ parents = <<>>
    /\ lastOp = Op("none", 0, NoError)

Next ==
    \/ \E a \in MainArgs : Construct(a, MaxProcs)
    \/ \E i \in Procs, j \in Procs \cup {0} : Add(i, j, MaxProcs)

Spec == Init /\ [][Next]_vars

(***************************************************************************)
(* SpecPair: two processes, one built with the default degrees and grid   *)
(* (all defaults, both flags off, or time-variable), the other from any    *)
(* argument set; the caller adds them                                      *)
(* (in either order, to themselves, to a sum, to a non-process) and asks   *)
(* for conditional samples.                                                *)
(***************************************************************************)
PairArgs == {a \in AllArgs : a.pop = 1}
PairArgsDefaultDegrees ==
    {a \in PairArgs : /\ a.ydeg = DefaultYdeg
                      /\ a.udeg = DefaultUdeg
                      /\ a.covpts = DefaultCovpts
                      /\ a.normalized = a.marginalize_over_inclination
                      /\ a.tau # None => a.normalized}

InitPair == \E a \in PairArgsDefaultDegrees, b \in PairArgs : Built(<<a, b>>)

NextPair ==
    \/ \E i \in Procs, j \in Procs \cup {0} : Add(i, j, 3)
    \/ \E p \in Procs : SampleYlmConditional(p)

SpecPair == InitPair /\ [][NextPair]_vars

(***************************************************************************)
(* SpecAssoc: three leaves A, B, C; the caller forms A + B, (A + B) + C,   *)
(* B + C, A + (B + C) and (A + B) + (B + C) in turn, and may draw prior    *)
(* samples from any process at any time.                                   *)
(***************************************************************************)
AssocArgs ==
    {DefaultArgs(1), DefaultArgs(2), DefaultArgs(3),
     Args(DefaultYdeg, DefaultUdeg, TRUE, TRUE, DefaultCovpts, Some(1), 2)}

AssocPlan == <<<<1, 2>>, <<4, 3>>, <<2, 3>>, <<1, 6>>, <<4, 6>>>>

InitAssoc ==
    \E a \in AssocArgs, b \in AssocArgs, c \in AssocArgs : Built(<<a, b, c>>)

NextAssoc ==
    \/ \E k \in 1..Len(AssocPlan) :
          /\ Len(heap) = 2 + k
          /\ Add(AssocPlan[k][1], AssocPlan[k][2], 3 + Len(AssocPlan))
    \/ \E p \in Procs : SampleYlm(p)

SpecAssoc == InitAssoc /\ [][NextAssoc]_vars

(***************************************************************************)
(* Calls of pure functions.  The caller's arguments are drawn when the     *)
(* behaviour starts (a pending call); the one step of the behaviour runs   *)
(* the function and records what it returned or the error it raised.       *)
(***************************************************************************)
Pending(fn, id, args) ==
    [op |-> "call", id |-> id, err |-> NoError, fn |-> fn, args |-> args,
     out |-> None]
Returned(fn, id, args, out) ==
    [op |-> "return", id |-> id, err |-> NoError, fn |-> fn, args |-> args,
     out |-> Some(out)]
Raised(fn, id, args, err) ==
    [op |-> "return", id |-> id, err |-> err, fn |-> fn, args |-> args,
     out |-> None]
IsPending(fn) == lastOp.op = "call" /\ lastOp.fn = fn
HasReturned(fn) == lastOp.op = "return" /\ lastOp.fn = fn
NoObjects == heap = <<>> /\ streams = <<>> /\ parents = <<>>

\* order on rationals
RLess(x, y) == x[1] * y[2] < y[1] * x[2]
RHalf == <<1, 2>>

(***************************************************************************)
(* starry_gp.transforms.get_alpha_beta.  An argument is an array, held as  *)
(* a sequence; a scalar is an array of one element and broadcasts.         *)
(***************************************************************************)
ErrMeanDomain == "mean must be in (0, 1)."
ErrVarianceDomain == "variance must be in (0, 1)."

\* np.all(x > 0) and np.all(x < 1)
AllInside(x) == \A k \in 1..Len(x) : RLess(RZero, x[k]) /\ RLess(x[k], ROne)

\* (the upper bound taken as closed)
AllInsideClosed(x) ==
    \A k \in 1..Len(x) : RLess(RZero, x[k]) /\ ~RLess(ROne, x[k])

\* element k of an array broadcast against another
Bc(x, k) == IF Len(x) = 1 THEN x[1] ELSE x[k]
BcLen(x, y) == IF Len(x) > Len(y) THEN Len(x) ELSE Len(y)

\* (the upper bound of the assertions taken as closed)
GetAlphaBetaErrorClosed(mu, nu) ==
    IF ~AllInsideClosed(mu) THEN ErrMeanDomain
    ELSE IF ~AllInsideClosed(nu) THEN ErrVarianceDomain
    ELSE NoError

\* the assertions of get_alpha_beta
GetAlphaBetaError(mu, nu) ==
    IF ~AllInside(mu) THEN ErrMeanDomain
    ELSE IF ~AllInside(nu) THEN ErrVarianceDomain
    ELSE NoError

\* (1 / nu - 1 read as 1 / (nu - 1))
GetAlphaBetaValueSlip(mu, nu) ==
    LET w(k) == RInv(RSub(Bc(nu, k), ROne))
    IN  [alpha |-> Tab(LAMBDA k : RMul(Bc(mu, k), w(k)), BcLen(mu, nu)),
         beta |-> Tab(LAMBDA k : RMul(RSub(ROne, Bc(mu, k)), w(k)),
                      BcLen(mu, nu))]

\* alpha = mu * (1 / nu - 1); beta = (1 - mu) * (1 / nu - 1)
GetAlphaBetaValue(mu, nu) ==
    LET w(k) == RSub(RInv(Bc(nu, k)), ROne)
    IN  [alpha |-> Tab(LAMBDA k : RMul(Bc(mu, k), w(k)), BcLen(mu, nu)),
         beta |-> Tab(LAMBDA k : RMul(RSub(ROne, Bc(mu, k)), w(k)),
                      BcLen(mu, nu))]

\* get_alpha_beta(mu, nu), called with the pending arguments
GetAlphaBeta ==
    /\ IsPending("get_alpha_beta")
    /\ LET mu == lastOp.args[1]
           nu == lastOp.args[2]
           err == GetAlphaBetaError(mu, nu)
       IN  lastOp' = IF err # NoError
                     THEN Raised("get_alpha_beta", 0, lastOp.args, err)
                     ELSE Returned("get_alpha_beta", 0, lastOp.args,
                                   GetAlphaBetaValue(mu, nu))
    /\ UNCHANGED <<heap, streams, parents>>

(***************************************************************************)
(* Vectors and matrices of any size (the size is the length).              *)
(***************************************************************************)
Dot(u, v) == RSum(LAMBDA k : RMul(u[k], v[k]), Len(u))
Apply(A, v) == Tab(LAMBDA i : Dot(A[i], v), Len(A))
Scaled(c, v) == Tab(LAMBDA k : RMul(c, v[k]), Len(v))
Outer(u, v) == Tab(LAMBDA i : Tab(LAMBDA j : RMul(u[i], v[j]), Len(v)), Len(u))
Plus(A, B) ==
    Tab(LAMBDA i : Tab(LAMBDA j : RAdd(A[i][j], B[i][j]), Len(A[i])), Len(A))
Times(c, A) ==
    Tab(LAMBDA i : Tab(LAMBDA j : RMul(c, A[i][j]), Len(A[i])), Len(A))
Zeros(n, m) == Tab(LAMBDA i : Tab(LAMBDA j : RZero, m), n)
RECURSIVE Total(_, _)
Total(F(_), n) == IF n = 0 THEN Zeros(Len(F(1)), Len(F(1)))
                  ELSE Plus(Total(F, n - 1), F(n))
Reverse(s) == Tab(LAMBDA k : s[Len(s) + 1 - k], Len(s))
IntVec(v) == Tab(LAMBDA k : RInt(v[k]), Len(v))

(***************************************************************************)
(* starry_gp.transforms.eigen.  scipy's eigh is modelled by what it        *)
(* returns: the eigenvalues in ascending order with a unit eigenvector     *)
(* for each, found here by search over small integer directions.  A        *)
(* column dir * sqrt(sq) is held as the pair [dir, sq], so that the unit   *)
(* vector along dir is [dir, 1 / |dir|^2].                                 *)
(***************************************************************************)
\* candidate eigenvalues and eigenvector directions of the inputs
EigenvalueRange == -1..2
AsSeq(f, N) == Tab(LAMBDA k : f[k], N)
DirectionsOfSize(N) ==
    {AsSeq(v, N) : v \in
        {v \in [1..N -> -2..2] :
            /\ \E k \in 1..N : v[k] # 0
            /\ LET first == CHOOSE k \in 1..N :
                                v[k] # 0 /\ \A m \in 1..(k - 1) : v[m] = 0
               IN  v[first] > 0}}
AllDirections == <<DirectionsOfSize(1), DirectionsOfSize(2), DirectionsOfSize(3)>>
Directions(N) == AllDirections[N]

RowsAgree(Q, w, v) == \A i \in 1..Len(Q) : Dot(Q[i], v) = RMul(w, v[i])
IsEigenpair(Q, w, v) == RowsAgree(Q, RInt(w), IntVec(v))
Spectrum(Q) ==
    {w \in EigenvalueRange :
        \E v \in Directions(Len(Q)) : IsEigenpair(Q, w, v)}
EigenDirection(Q, w) == CHOOSE v \in Directions(Len(Q)) : IsEigenpair(Q, w, v)

\* the elements of a set of integers in ascending order
RECURSIVE Ascending(_)
Ascending(S) ==
    IF S = {} THEN <<>>
    ELSE LET hi == CHOOSE x \in S : \A y \in S : y <= x
         IN  Append(Ascending(S \ {hi}), hi)

\* eigh(Q, subset_by_index=(lo, hi)), indices counted from 0, up to the
\* signs of the eigenvectors
UnitVector(d) == [dir |-> d, sq |-> RInv(Dot(IntVec(d), IntVec(d)))]
EigenpairsOf(Q, all, lo, hi) ==
    [w |-> Tab(LAMBDA k : all[lo + k], hi - lo + 1),
     U |-> Tab(LAMBDA k : UnitVector(EigenDirection(Q, all[lo + k])),
               hi - lo + 1)]
eigh(Q, lo, hi) == EigenpairsOf(Q, Ascending(Spectrum(Q)), lo, hi)

\* sign[k] is the sign the routine happens to give eigenvector k
Signed(e, sign) ==
    [w |-> e.w,
     U |-> Tab(LAMBDA k : [dir |-> Tab(LAMBDA i : sign[k] * e.U[k].dir[i],
                                       Len(e.U[k].dir)),
                           sq |-> e.U[k].sq], Len(e.U))]

\* the rank asked for: n = N when omitted
EigenRank(Q, n) == IF n = None THEN Len(Q) ELSE n[1]

\* (the eigenvalue used as it is)
ClipMissing(w) == w

\* np.maximum(0, w)
Clip(w) == IF w < 0 THEN 0 ELSE w

\* U @ np.diag(np.sqrt(np.maximum(0, w)))
EigenScale(e) ==
    Tab(LAMBDA k : [dir |-> e.U[k].dir,
                    sq |-> RMul(e.U[k].sq, RInt(Clip(e.w[k])))], Len(e.U))

\* (the columns returned in the order eigh gives them)
EigenOrderKept(U) == U

\* U[:, ::-1]
EigenOrder(U) == Reverse(U)

\* the index range (N - n, N - 1)
EigenSubset(N, n) == <<N - n, N - 1>>

\* the decomposition eigen(Q, n) asks for
EigenDecomposition(Q, n) ==
    LET s == EigenSubset(Len(Q), EigenRank(Q, n))
    IN  eigh(Q, s[1], s[2])

\* eigen(Q, n): the scaled, reordered eigenvectors
eigen(e, sign) == EigenOrder(EigenScale(Signed(e, sign)))

\* eigen(Q, n), called with the pending arguments
EigenReturns(e) ==
    \E sign \in [1..Len(e.w) -> {-1, 1}] :
        lastOp' = Returned("eigen", 0, lastOp.args, eigen(e, sign))
Eigen ==
    /\ IsPending("eigen")
    /\ EigenReturns(EigenDecomposition(lastOp.args[1], lastOp.args[2]))
    /\ UNCHANGED <<heap, streams, parents>>

(***************************************************************************)
(* SpecTransforms: one call of get_alpha_beta or of eigen.                 *)
(***************************************************************************)
\* values of mu and nu given to get_alpha_beta, and the longest array
MaxArray == 2
AlphaBetaGrid == {<<-1, 4>>, <<0, 1>>, <<1, 4>>, <<1, 2>>, <<1, 1>>, <<5, 4>>}
Arrays == UNION {[1..n -> AlphaBetaGrid] : n \in 1..MaxArray}
AlphaBetaInputs ==
    {<<AsSeq(m, Len(m)), AsSeq(v, Len(v))>> :
        m \in Arrays, v \in {x \in Arrays : Len(x) = 1}}
    \cup {<<AsSeq(m, Len(m)), AsSeq(v, Len(v))>> :
        m \in {x \in Arrays : Len(x) = 1}, v \in Arrays}
    \cup {<<AsSeq(m, 2), AsSeq(v, 2)>> :
        m \in [1..2 -> {<<1, 4>>, <<1, 2>>, <<1, 1>>}],
        v \in [1..2 -> {<<0, 1>>, <<1, 2>>, <<3, 4>>}]}

\* symmetric matrices with the eigenvalues w along the orthogonal basis
FromSpectrum(basis, w) ==
    Total(LAMBDA k : Times(RDiv(RInt(w[k]),
                                Dot(IntVec(basis[k]), IntVec(basis[k]))),
                           Outer(IntVec(basis[k]), IntVec(basis[k]))),
          Len(basis))
Bases ==
    {<<<<1, 0>>, <<0, 1>>>>, <<<<1, 1>>, <<1, -1>>>>, <<<<1, 2>>, <<2, -1>>>>,
     <<<<1, 0, 0>>, <<0, 1, 0>>, <<0, 0, 1>>>>,
     <<<<1, 1, 0>>, <<1, -1, 0>>, <<0, 0, 1>>>>,
     <<<<1, 1, 1>>, <<1, -1, 0>>, <<1, 1, -2>>>>}
Spectra(N) ==
    {w \in [1..N -> EigenvalueRange] : \A i, j \in 1..N : i # j => w[i] # w[j]}
EigenMatrices ==
    {FromSpectrum(b, AsSeq(w, Len(b))) : b \in Bases, w \in Spectra(3)}
EigenInputs ==
    {<<Q, n>> : Q \in EigenMatrices, n \in {None, Some(1), Some(2), Some(3)}}

InitTransforms ==
    /\ NoObjects
    /\ \/ \E a \in AlphaBetaInputs : lastOp = Pending("get_alpha_beta", 0, a)
       \/ \E a \in {x \in EigenInputs : EigenRank(x[1], x[2]) <= Len(x[1])} :
            lastOp = Pending("eigen", 0, a)

NextTransforms == GetAlphaBeta \/ Eigen

SpecTransforms == InitTransforms /\ [][NextTransforms]_vars

(***************************************************************************)
(* Floating-point values that may be infinite or not-a-number.  A finite   *)
(* value is a rational; the others have denominator 0.  The operations     *)
(* follow IEEE 754 on the special values (signed zeros are not kept).      *)
(***************************************************************************)
Inf == <<1, 0>>
NegInf == <<-1, 0>>
NaN == <<0, 0>>
IsFinite(x) == x[2] # 0
IsNaN(x) == x = NaN
SameSign(x, y) == (x[1] >= 0) = (y[1] >= 0)

XNeg(x) == <<-x[1], x[2]>>
XAdd(x, y) ==
    IF IsFinite(x) /\ IsFinite(y) THEN RAdd(x, y)
    ELSE IF IsNaN(x) \/ IsNaN(y) THEN NaN
    ELSE IF ~IsFinite(x) /\ ~IsFinite(y) THEN (IF x = y THEN x ELSE NaN)
    ELSE IF IsFinite(x) THEN y ELSE x
XSub(x, y) == XAdd(x, XNeg(y))
XMul(x, y) ==
    IF IsFinite(x) /\ IsFinite(y) THEN RMul(x, y)
    ELSE IF IsNaN(x) \/ IsNaN(y) THEN NaN
    ELSE IF x[1] = 0 \/ y[1] = 0 THEN NaN
    ELSE IF SameSign(x, y) THEN Inf ELSE NegInf
XDiv(x, y) ==
    IF IsNaN(x) \/ IsNaN(y) THEN NaN
    ELSE IF IsFinite(x) /\ IsFinite(y)
         THEN IF y[1] # 0 THEN RDiv(x, y)
              ELSE IF x[1] = 0 THEN NaN
              ELSE IF x[1] > 0 THEN Inf ELSE NegInf
    ELSE IF IsFinite(x) THEN RZero
    ELSE IF ~IsFinite(y) THEN NaN
    ELSE IF SameSign(x, y) THEN Inf ELSE NegInf
\* x > y (false when either is not-a-number)
XGreater(x, y) ==
    IF IsNaN(x) \/ IsNaN(y) THEN FALSE
    ELSE IF IsFinite(x) /\ IsFinite(y) THEN RLess(y, x)
    ELSE IF x = y THEN FALSE
    ELSE IF ~IsFinite(x) THEN x = Inf
    ELSE y = NegInf

(***************************************************************************)
(* Arrays of such values: a vector is a sequence, a matrix a sequence of   *)
(* rows.                                                                   *)
(***************************************************************************)
RECURSIVE XSum(_, _)
XSum(F(_), n) == IF n = 0 THEN RZero ELSE XAdd(XSum(F, n - 1), F(n))
Grid(F(_, _), n, m) == Tab(LAMBDA i : Tab(LAMBDA j : F(i, j), m), n)
Rows(A) == Len(A)
Cols(A) == Len(A[1])
XDot(u, v) == XSum(LAMBDA k : XMul(u[k], v[k]), Len(u))
XApply(A, v) == Tab(LAMBDA i : XDot(A[i], v), Rows(A))
XVecAdd(u, v) == Tab(LAMBDA k : XAdd(u[k], v[k]), Len(u))
XVecSub(u, v) == Tab(LAMBDA k : XSub(u[k], v[k]), Len(u))
XMatAdd(A, B) == Grid(LAMBDA i, j : XAdd(A[i][j], B[i][j]), Rows(A), Cols(A))
XMatScale(c, A) == Grid(LAMBDA i, j : XMul(c, A[i][j]), Rows(A), Cols(A))
XMatMul(A, B) ==
    Grid(LAMBDA i, j : XSum(LAMBDA k : XMul(A[i][k], B[k][j]), Cols(A)),
         Rows(A), Cols(B))
Transpose(A) == Grid(LAMBDA i, j : A[j][i], Cols(A), Rows(A))
Column(A, j) == Tab(LAMBDA i : A[i][j], Rows(A))
Identity(n) == Grid(LAMBDA i, j : IF i = j THEN ROne ELSE RZero, n, n)
Diag(v) == Grid(LAMBDA i, j : IF i = j THEN v[i] ELSE RZero, Len(v), Len(v))
Filled(x, n, m) == Grid(LAMBDA i, j : x, n, m)
Put(v, i, x) == Tab(LAMBDA k : IF k = i THEN x ELSE v[k], Len(v))
AllFinite(A) == \A i \in 1..Rows(A), j \in 1..Cols(A) : IsFinite(A[i][j])

(***************************************************************************)
(* cho_factor and cho_solve on such matrices, of any size.  As above the   *)
(* factor is held as [L, D]; a pivot that is not positive (zero, negative  *)
(* or not-a-number) makes the factorisation fail, and the factor is then   *)
(* not-a-number in every entry.                                            *)
(***************************************************************************)
XPivot(M, L, D, j) ==
    XSub(M[j][j], XSum(LAMBDA k : XMul(L[j][k], XMul(L[j][k], D[k])), j - 1))
XBelow(M, L, D, i, j, dj) ==
    XDiv(XSub(M[i][j],
              XSum(LAMBDA k : XMul(L[i][k], XMul(L[j][k], D[k])), j - 1)),
         dj)
FailedFactor(n) == [L |-> Filled(NaN, n, n), D |-> Tab(LAMBDA k : NaN, n)]
XColumnDone(M, L, D, j, dj) ==
    [L |-> Grid(LAMBDA i, k : IF k = j /\ i > j THEN XBelow(M, L, D, i, j, dj)
                              ELSE L[i][k], Rows(M), Rows(M)),
     D |-> Put(D, j, dj)]
RECURSIVE XFactorFrom(_, _, _)
XFactorStep(M, c, j, dj) ==
    IF ~XGreater(dj, RZero) THEN FailedFactor(Rows(M))
    ELSE XFactorFrom(M, XColumnDone(M, c.L, c.D, j, dj), j + 1)
XFactorFrom(M, c, j) ==
    IF j > Rows(M) THEN c
    ELSE XFactorStep(M, c, j, XPivot(M, c.L, c.D, j))
cho_factor_x(M) ==
    XFactorFrom(M, [L |-> Identity(Rows(M)), D |-> Tab(LAMBDA k : RZero, Rows(M))],
                1)

RECURSIVE XForward(_, _, _, _)
XForward(L, b, y, i) ==
    IF i > Len(b) THEN y
    ELSE XForward(L, b,
                  Put(y, i, XSub(b[i], XSum(LAMBDA k : XMul(L[i][k], y[k]),
                                            i - 1))),
                  i + 1)
RECURSIVE XBackward(_, _, _, _)
XBackward(L, z, x, i) ==
    IF i < 1 THEN x
    ELSE XBackward(L, z,
                   Put(x, i, XSub(z[i],
                                  XSum(LAMBDA k : IF k > i
                                                  THEN XMul(L[k][i], x[k])
                                                  ELSE RZero, Len(z)))),
                   i - 1)
XScaleByPivots(D, y) == Tab(LAMBDA k : XDiv(y[k], D[k]), Len(y))
XSolveBack(c, z) == XBackward(c.L, z, Tab(LAMBDA k : RZero, Len(z)), Len(z))
cho_solve_x(c, b) ==
    XSolveBack(c, XScaleByPivots(c.D, XForward(c.L, b, Tab(LAMBDA k : RZero, Len(b)), 1)))
SolvedColumns(c, B) == Tab(LAMBDA j : cho_solve_x(c, Column(B, j)), Cols(B))
cho_solve_x_mat(c, B) == Transpose(SolvedColumns(c, B))

(***************************************************************************)
(* The flux integral of a process (starry_process.flux.FluxIntegral): the  *)
(* moments of the flux at the times t are the projections of the moments   *)
(* of the coefficients through the design matrix of the observing          *)
(* geometry.  The geometry (i, p, u) is the default one throughout.        *)
(***************************************************************************)
\* row of the design matrix at one time: entries -1, 0, 1 that turn with time
DesignEntry(time, k) == RInt(((time + k) % 3) - 1)
design_matrix(t) == Grid(LAMBDA i, k : DesignEntry(t[i], k), Len(t), NCoef)
FluxMean(self, t) == XApply(design_matrix(t), self.mean_ylm)
ProjectedCov(A, cov) == XMatMul(XMatMul(A, cov), Transpose(A))
FluxCov(self, t) == ProjectedCov(design_matrix(t), self.cov_ylm)

\* the temporal kernel at unit timescale: 1 at equal times, 1/2 otherwise
TemporalKernel(t) ==
    Grid(LAMBDA i, j : IF t[i] = t[j] THEN ROne ELSE RHalf, Len(t), Len(t))
Elementwise(A, B) ==
    Grid(LAMBDA i, j : XMul(A[i][j], B[i][j]), Rows(A), Cols(A))

\* the shape pair of the series expansion (starry_process.ops.AlphaBetaOp),
\* cut after its first term
AlphaBetaOp(z) == [alpha |-> XAdd(ROne, z), beta |-> z]

(***************************************************************************)
(* StarryProcess._normalize(mu, Sig)                                       *)
(***************************************************************************)
\* m = tt.mean(Sig)
SigMean(Sig) ==
    XDiv(XSum(LAMBDA i : XSum(LAMBDA j : Sig[i][j], Cols(Sig)), Rows(Sig)),
         RInt(Rows(Sig) * Cols(Sig)))
\* q = tt.dot(Sig, j) / (K * m)
NormQ(Sig, m) ==
    Tab(LAMBDA i : XDiv(XSum(LAMBDA j : Sig[i][j], Cols(Sig)),
                        XMul(RInt(Rows(Sig)), m)), Rows(Sig))
\* (mu not squared)
NormZSlip(m, mu) == XDiv(m, mu)
\* z = m / mu ** 2
NormZ(m, mu) == XDiv(m, XMul(mu, mu))
\* p = j - q
NormP(q) == Tab(LAMBDA i : XSub(ROne, q[i]), Len(q))

\* normSig = (alpha / mu ** 2) * Sig + z * ((alpha + beta) * ppT - alpha * qqT)
NormSig(mu, Sig, z, q, p, ab) ==
    Grid(LAMBDA i, j :
           XAdd(XMul(XDiv(ab.alpha, XMul(mu, mu)), Sig[i][j]),
                XMul(z, XSub(XMul(XAdd(ab.alpha, ab.beta), XMul(p[i], p[j])),
                             XMul(ab.alpha, XMul(q[i], q[j]))))),
         Rows(Sig), Cols(Sig))

\* (the threshold never applied)
NormalizeResultUnguarded(zmax, z, Sig, normSig) == normSig

\* (the limit itself taken as beyond the limit)
NormalizeResultClosed(zmax, z, Sig, normSig) ==
    IF XGreater(z, zmax) \/ z = zmax THEN XMatScale(Inf, Sig) ELSE normSig

\* ifelse(tt.gt(z, self._normzmax), Sig * np.inf, normSig)
NormalizeResult(zmax, z, Sig, normSig) ==
    IF XGreater(z, zmax) THEN XMatScale(Inf, Sig) ELSE normSig

NormalizeFrom(zmax, mu, Sig, z, q) ==
    NormalizeResult(zmax, z, Sig,
                    NormSig(mu, Sig, z, q, NormP(q), AlphaBetaOp(z)))
NormalizeGiven(zmax, mu, Sig, m) ==
    NormalizeFrom(zmax, mu, Sig, NormZ(m, mu), NormQ(Sig, m))
normalize(self, mu, Sig) == NormalizeGiven(self.normzmax, mu, Sig, SigMean(Sig))

(***************************************************************************)
(* StarryProcess.mean(t) and StarryProcess.cov(t)                          *)
(***************************************************************************)
mean(self, t) ==
    IF self.normalized THEN Tab(LAMBDA k : RZero, Len(t)) ELSE FluxMean(self, t)

\* cov = self._flux.cov(...); if time-variable, cov *= temporal_kernel
KernelApplied(self, t, cov) ==
    IF self.time_variable THEN Elementwise(cov, TemporalKernel(t)) ELSE cov

\* mu = 1.0 + self._flux.mean(...)[0]
NormalizationLevel(self, t) == XAdd(ROne, FluxMean(self, t)[1])

cov(self, t) ==
    IF self.normalized
    THEN normalize(self, NormalizationLevel(self, t),
                   KernelApplied(self, t, FluxCov(self, t)))
    ELSE KernelApplied(self, t, FluxCov(self, t))

(***************************************************************************)
(* Calls on one process.  The process is built first; the pending call     *)
(* names the method and its arguments.                                     *)
(***************************************************************************)
\* self._normalize(mu, Sig)
Normalize ==
    /\ IsPending("_normalize")
    /\ lastOp' = Returned("_normalize", 1, lastOp.args,
                          normalize(heap[1], lastOp.args[1], lastOp.args[2]))
    /\ UNCHANGED <<heap, streams, parents>>

\* self.cov(t)
Cov ==
    /\ IsPending("cov")
    /\ lastOp' = Returned("cov", 1, lastOp.args, cov(heap[1], lastOp.args[1]))
    /\ UNCHANGED <<heap, streams, parents>>

(***************************************************************************)
(* StarryProcess.log_likelihood(t, flux, data_cov, baseline_mean,          *)
(* baseline_var).  data_cov comes with its number of dimensions.  The      *)
(* logarithm is not computed: a finite value -q/2 - log(d)/2 - K log(2 pi)/2 *)
(* is held as the triple (q, d, K), d being the product of the squared     *)
(* diagonal entries of the Cholesky factor.                                *)
(***************************************************************************)
\* an array with its number of dimensions; the entries are kept as rows
Scalar(x) == [ndim |-> 0, v |-> <<<<x>>>>]
Vector(x) == [ndim |-> 1, v |-> <<x>>]
Matrix(x) == [ndim |-> 2, v |-> x]

\* C = data_cov * tt.eye(K) / tt.diag(data_cov) / data_cov
DataCov(data_cov, K) ==
    IF data_cov.ndim = 0 THEN XMatScale(data_cov.v[1][1], Identity(K))
    ELSE IF data_cov.ndim = 1 THEN Diag(data_cov.v[1])
    ELSE data_cov.v

\* (the baseline variance on the diagonal only)
AddToDiagonal(M, x) ==
    Grid(LAMBDA i, j : IF i = j THEN XAdd(M[i][j], x) ELSE M[i][j],
         Rows(M), Cols(M))

\* M += x, for a scalar x
AddToAll(M, x) == Grid(LAMBDA i, j : XAdd(M[i][j], x), Rows(M), Cols(M))

\* (the residual with the model mean added back)
ResidualSlip(flux, gp_mean, baseline_mean) ==
    Tab(LAMBDA k : XSub(XAdd(flux[k], gp_mean[k]), baseline_mean), Len(flux))

\* r = flux - gp_mean - baseline_mean
Residual(flux, gp_mean, baseline_mean) ==
    Tab(LAMBDA k : XSub(XSub(flux[k], gp_mean[k]), baseline_mean), Len(flux))

\* the values a likelihood can take
LogValue(kind) == [kind |-> kind, q |-> RZero, d |-> ROne, K |-> 0]
LogNaN == LogValue("nan")
NegativeInfinity == LogValue("-inf")
PositiveInfinity == LogValue("+inf")
RECURSIVE Product(_, _)
Product(D, n) == IF n = 0 THEN ROne ELSE RMul(Product(D, n - 1), D[n])

\* tt.sum(tt.log(tt.diag(cho_gp_cov))), by kind
SumLogKind(D) ==
    IF \E k \in 1..Len(D) : IsNaN(D[k]) \/ XGreater(RZero, D[k]) THEN "nan"
    ELSE IF (\E k \in 1..Len(D) : D[k] = Inf) /\ (\E k \in 1..Len(D) : D[k] = RZero)
         THEN "nan"
    ELSE IF \E k \in 1..Len(D) : D[k] = Inf THEN "+inf"
    ELSE IF \E k \in 1..Len(D) : D[k] = RZero THEN "-inf"
    ELSE "finite"

\* lnlike = -0.5 * quad - sum(log(diag)) - 0.5 * K * log(2 pi)
LnLike(quad, D, K) ==
    LET half == XMul(<<-1, 2>>, quad)
        logs == SumLogKind(D)
    IN  IF IsNaN(half) \/ logs = "nan" THEN LogNaN
        ELSE IF half = Inf /\ logs = "+inf" THEN LogNaN
        ELSE IF half = NegInf /\ logs = "-inf" THEN LogNaN
        ELSE IF half = NegInf \/ logs = "+inf" THEN NegativeInfinity
        ELSE IF half = Inf \/ logs = "-inf" THEN PositiveInfinity
        ELSE [kind |-> "finite", q |-> quad, d |-> Product(D, Len(D)), K |-> K]

\* (the value returned as computed)
NanGuardMissing(lnlike) == lnlike

\* ifelse(tt.isnan(lnlike[0, 0]), -np.inf, lnlike[0, 0])
NanGuard(lnlike) == IF lnlike.kind = "nan" THEN NegativeInfinity ELSE lnlike

\* the value returned, with the matrices and the value it was computed from
LogLikelihoodReturn(C, gp_cov, lnlike) ==
    [value |-> NanGuard(lnlike), lnlike |-> lnlike, gp_cov |-> gp_cov, C |-> C]
LogLikelihoodFactored(C, gp_cov, cho_gp_cov, r) ==
    LogLikelihoodReturn(C, gp_cov,
        LnLike(XDot(r, cho_solve_x(cho_gp_cov, r)), cho_gp_cov.D, Len(r)))
LogLikelihoodOn(C, gp_cov, r) ==
    LogLikelihoodFactored(C, gp_cov, cho_factor_x(gp_cov), r)
LogLikelihoodWith(C, gp_cov, baseline_var, r) ==
    LogLikelihoodOn(C, AddToAll(XMatAdd(gp_cov, C), baseline_var), r)
log_likelihood(self, t, flux, data_cov, baseline_mean, baseline_var) ==
    LogLikelihoodWith(DataCov(data_cov, Len(t)), cov(self, t), baseline_var,
                      Residual(flux, mean(self, t), baseline_mean))

\* self.log_likelihood(t, flux, data_cov, baseline_mean, baseline_var)
LogLikelihood ==
    /\ IsPending("log_likelihood")
    /\ lastOp' = Returned("log_likelihood", 1, lastOp.args,
                          log_likelihood(heap[1], lastOp.args[1], lastOp.args[2],
                                         lastOp.args[3], lastOp.args[4],
                                         lastOp.args[5]))
    /\ UNCHANGED <<heap, streams, parents>>

(***************************************************************************)
(* StarryProcess.sample_ylm_conditional(t, flux, data_cov, baseline_mean,  *)
(* baseline_var), one sample.  The Cholesky factor of the posterior        *)
(* covariance is held as the pair (L, D) of its unit-triangular part and   *)
(* its squared diagonal, and the sample as the mean, the factor and the    *)
(* standard-normal draw u it is built from: ymu + L sqrt(D) u.              *)
(***************************************************************************)
\* (the likelihood precision alone)
PosteriorPrecisionNoPrior(A, CInvA, LInv) == XMatMul(Transpose(A), CInvA)

\* W = tt.dot(tt.transpose(A), CInvA) + self._LInv
PosteriorPrecision(A, CInvA, LInv) ==
    XMatAdd(XMatMul(Transpose(A), CInvA), LInv)

\* ymu = tt.dot(M, flux - baseline_mean) + cho_solve(cho_W, self._LInvmu)
PosteriorMean(M, cho_W, centred, LInvmu) ==
    XVecAdd(XApply(M, centred), cho_solve_x(cho_W, LInvmu))

ConditionalReturn(C, W, ymu, ycov, cho_ycov, u) ==
    [ymu |-> ymu, ycov |-> ycov, cho_ycov |-> cho_ycov, u |-> u, C |-> C, W |-> W]
ConditionalPosterior(C, W, ymu, ycov, u) ==
    ConditionalReturn(C, W, ymu, ycov, cho_factor_x(ycov), u)
ConditionalSolved(C, W, cho_W, CInvA, centred, LInvmu, u) ==
    ConditionalPosterior(C, W,
        PosteriorMean(cho_solve_x_mat(cho_W, Transpose(CInvA)), cho_W, centred,
                      LInvmu),
        cho_solve_x_mat(cho_W, Identity(Rows(W))), u)
ConditionalWeighted(self, C, W, CInvA, centred, u) ==
    ConditionalSolved(C, W, cho_factor_x(W), CInvA, centred, self.LInvmu, u)
ConditionalProjected(self, C, A, CInvA, centred, u) ==
    ConditionalWeighted(self, C, PosteriorPrecision(A, CInvA, self.LInv), CInvA,
                        centred, u)
ConditionalOn(self, C, A, centred, u) ==
    ConditionalProjected(self, C, A, cho_solve_x_mat(cho_factor_x(C), A), centred, u)
sample_ylm_conditional(self, t, flux, data_cov, baseline_mean, baseline_var, u) ==
    ConditionalOn(self, AddToAll(DataCov(data_cov, Len(flux)), baseline_var),
                  design_matrix(t),
                  Tab(LAMBDA k : XSub(flux[k], baseline_mean), Len(flux)), u)

\* the draws of self.random.normal((self._nylm, 1))
NormalDraws == {Tab(LAMBDA k : RInt(c * k), NCoef) : c \in {-1, 1}}

\* self.sample_ylm_conditional(t, flux, data_cov, baseline_mean, baseline_var)
SampleYlmConditionalOn ==
    /\ IsPending("sample_ylm_conditional")
    /\ LET err == ConditionalError(heap[1])
       IN  IF err # NoError
           THEN /\ lastOp' = Raised("sample_ylm_conditional", 1, lastOp.args, err)
                /\ UNCHANGED streams
           ELSE /\ TotalDraws < MaxDraws
                /\ \E u \in NormalDraws :
                     lastOp' = Returned("sample_ylm_conditional", 1, lastOp.args,
                                 sample_ylm_conditional(heap[1], lastOp.args[1],
                                     lastOp.args[2], lastOp.args[3], lastOp.args[4],
                                     lastOp.args[5], u))
                /\ streams' = [streams EXCEPT ![heap[1].random].draws = @ + 1]
    /\ UNCHANGED <<heap, parents>>

(***************************************************************************)
(* SpecFlux: one process, and one call of a method that works in flux      *)
(* space.                                                                  *)
(***************************************************************************)
MaxObs == 2
ObsTimes == 0..2

\* StarryProcess(..., normalization_zmax = z)
WithZmax(a, z) == a @@ ("normalization_zmax" :> z)
FluxArg(normalized, tau, pop) ==
    Args(DefaultYdeg, DefaultUdeg, normalized, FALSE, DefaultCovpts, tau, pop)
FluxArgs ==
    {FluxArg(n, None, pop) : n \in BOOLEAN, pop \in {2, 3}}
      \cup {FluxArg(n, Some(1), 2) : n \in BOOLEAN}
      \cup {WithZmax(FluxArg(TRUE, None, pop), ROne) : pop \in {2, 3}}

\* observation times: increasing, at most MaxObs of them
TimeArrays ==
    {t \in UNION {[1..n -> ObsTimes] : n \in 1..MaxObs} :
        \A i \in 1..(Len(t) - 1) : t[i] < t[i + 1]}

\* symmetric matrices with entries of either sign
SigEntries == {-1, 0, 2}
SymmetricOfSize(n) ==
    {Grid(LAMBDA i, j : RInt(IF i <= j THEN f[<<i, j>>] ELSE f[<<j, i>>]), n, n) :
        f \in [{ij \in (1..n) \X (1..n) : ij[1] <= ij[2]} -> SigEntries]}
SigInputs == UNION {SymmetricOfSize(n) : n \in 1..MaxObs}
NormalizeInputs == {RInt(1), RInt(2)} \X SigInputs

\* observations at the times t
FluxArrays(K) == {Tab(LAMBDA k : RInt(c * (k % 2)), K) : c \in {0, 1}}
DataCovs(K) ==
    {Scalar(ROne), Vector(Tab(LAMBDA k : RInt(k), K)),
     Matrix(Grid(LAMBDA i, j : IF i = j THEN RInt(2)
                               ELSE IF i - j \in {-1, 1} THEN ROne ELSE RZero,
                 K, K))}
Baselines == {RZero, ROne}
ObservedAt(t) ==
    {<<t, flux, data_cov, baseline_mean, baseline_var>> :
        flux \in FluxArrays(Len(t)), data_cov \in DataCovs(Len(t)),
        baseline_mean \in Baselines, baseline_var \in Baselines}
Observations == UNION {ObservedAt(t) : t \in TimeArrays}

InitFlux ==
    \E a \in FluxArgs :
        /\ heap = <<StarryProcessInit(a, 1)>>
        /\ streams = <<[seed |-> a.seed, draws |-> 0]>>
        /\ parents = <<<<0, 0>>>>
        /\ \/ /\ a.normalized /\ a.tau = None /\ a.pop = 2
              /\ \E x \in NormalizeInputs : lastOp = Pending("_normalize", 1, x)
           \/ \E t \in TimeArrays : lastOp = Pending("cov", 1, <<t>>)
           \/ \E x \in Observations : lastOp = Pending("log_likelihood", 1, x)
           \/ \E x \in Observations :
                lastOp = Pending("sample_ylm_conditional", 1, x)

NextFlux == Normalize \/ Cov \/ LogLikelihood \/ SampleYlmConditionalOn

SpecFlux == InitFlux /\ [][NextFlux]_vars

(***************************************************************************)
(* SpecConstruct: one call of the constructor.                             *)
(***************************************************************************)
\* StarryProcess(**a), as a call
ConstructCall ==
    /\ IsPending("construct")
    /\ LET err == InitError(lastOp.args)
       IN  IF err # NoError
           THEN /\ lastOp' = Raised("construct", 0, lastOp.args, err)
                /\ UNCHANGED <<heap, streams, parents>>
           ELSE /\ heap' = Append(heap, StarryProcessInit(lastOp.args,
                                                         Len(streams) + 1))
                /\ streams' = Append(streams, [seed |-> lastOp.args.seed,
                                              draws |-> 0])
                /\ parents' = Append(parents, <<0, 0>>)
                /\ lastOp' = Returned("construct", Len(heap) + 1, lastOp.args,
                                      Len(heap) + 1)

\* the latitude keywords a caller may pass: any subset of a, b, mu, sigma,
\* each as None or as a value
ShapeKeys == {"a", "b", "mu", "sigma"}
ShapeValue(key) ==
    IF key = "mu" THEN RInt(30) ELSE IF key = "sigma" THEN RInt(5) ELSE RHalf
ShapeKeywords ==
    UNION {[S -> {"none", "value"}] : S \in SUBSET ShapeKeys}
WithShape(a, shape) ==
    [k \in DOMAIN a \cup DOMAIN shape |->
        IF k \in DOMAIN shape
        THEN (IF shape[k] = "none" THEN None ELSE Some(ShapeValue(k)))
        ELSE a[k]]
ConstructArgs ==
    {WithShape(Args(y, u, FALSE, FALSE, DefaultCovpts, None, 2), shape) :
        y \in {MinYdeg - 1, MinYdeg, DefaultYdeg},
        u \in {MinUdeg - 1, MinUdeg, DefaultUdeg},
        shape \in ShapeKeywords}

InitConstruct ==
    /\ NoObjects
    /\ \E a \in ConstructArgs : lastOp = Pending("construct", 0, a)

NextConstruct == ConstructCall

SpecConstruct == InitConstruct /\ [][NextConstruct]_vars

(***************************************************************************)
(* Attributes.  StarryProcessSum.__init__ does not run the constructor of  *)
(* StarryProcess: a composed process has the attributes its own            *)
(* constructor assigns and no other.  The record of a composed process     *)
(* keeps a placeholder in the fields of the attributes it lacks.           *)
(***************************************************************************)
SumAttributes ==
    {"_ydeg", "_udeg", "_nylm", "_normalized", "_marginalize_over_inclination",
     "_covpts", "_normN", "_normzmax", "_get_alpha_beta", "_time_variable",
     "_kwargs", "_M", "_mx", "_my", "random", "_children", "_mean_ylm",
     "_cov_ylm", "_cho_cov_ylm", "_LInv", "_LInvmu", "_flux"}
HasAttr(self, name) == self.kind = "leaf" \/ name \in SumAttributes
ErrAttribute(name) ==
    "'StarryProcessSum' object has no attribute '" \o name \o "'"
ErrNotCallable == "'NoneType' object is not callable"

(***************************************************************************)
(* The random stream: the k-th array drawn from a stream is a function of  *)
(* the stream's seed, of k and of the shape asked for.                     *)
(***************************************************************************)
StreamNormal(seed, k, rows, cols) ==
    Grid(LAMBDA i, j : RInt(((seed + k + i + 2 * j) % 3) - 1), rows, cols)

\* (every process drawing from the stream created first)
NormalGlobal(s, sid, rows, cols) ==
    StreamNormal(s[1].seed, s[1].draws, rows, cols)

\* self.random.normal((rows, cols)), self.random being stream sid of s
Normal(s, sid, rows, cols) ==
    StreamNormal(s[sid].seed, s[sid].draws, rows, cols)

\* the streams once stream sid has been drawn from
Advance(s, sid) == [s EXCEPT ![sid].draws = @ + 1]

(***************************************************************************)
(* StarryProcess.log_jac(): the log-Jacobian of the latitude stage, a      *)
(* scalar (the Jacobian determinant of the transform from (mu, sigma) to   *)
(* (a, b) is held, not its logarithm).                                     *)
(***************************************************************************)
LogJacError(self) ==
    IF HasAttr(self, "_latitude") THEN NoError ELSE ErrAttribute("_latitude")
log_jac(self) == [ndim |-> 0, v |-> RDiv(ROne, RMul(RInt(90), RInt(45)))]

\* heap[p].log_jac()
LogJac(p) ==
    /\ lastOp' = IF LogJacError(heap[p]) # NoError
                 THEN Raised("log_jac", p, <<>>, LogJacError(heap[p]))
                 ELSE Returned("log_jac", p, <<>>, log_jac(heap[p]))
    /\ UNCHANGED <<heap, streams, parents>>

(***************************************************************************)
(* StarryProcess.sample_ylm(t, nsamples).  A sample mean + L sqrt(D) u is  *)
(* held as the mean, the factor (L, D) and the draw u; the result is the   *)
(* sequence of the nsamples samples.  With times, sample k is held as the  *)
(* two factors and the draw of ntimes rows it is built from.               *)
(***************************************************************************)
\* what self._temporal_kernel(t, t, self._tau) raises
SampleYlmError(self, t) ==
    IF t = None THEN NoError
    ELSE IF ~HasAttr(self, "_temporal_kernel")
         THEN ErrAttribute("_temporal_kernel")
    ELSE IF self.temporal_kernel = "None" THEN ErrNotCallable
    ELSE NoError

sample_ylm(self, s, t, nsamples) ==
    IF t = None
    THEN Tab(LAMBDA k : [mean |-> self.mean_ylm, cho |-> self.cho_cov_ylm,
                         u |-> Column(Normal(s, self.random, NCoef, nsamples), k)],
             nsamples)
    ELSE Tab(LAMBDA k : [cho |-> self.cho_cov_ylm,
                         cho_t |-> cho_factor_x(TemporalKernel(t[1])),
                         U |-> SubSeq(Normal(s, self.random,
                                             nsamples * Len(t[1]), NCoef),
                                      (k - 1) * Len(t[1]) + 1, k * Len(t[1]))],
             nsamples)

\* heap[p].sample_ylm(t, nsamples)
SampleYlmAt(p, t, nsamples) ==
    LET err == SampleYlmError(heap[p], t)
    IN  /\ err = NoError => TotalDraws < MaxDraws
        /\ lastOp' = IF err # NoError
                     THEN Raised("sample_ylm", p, <<t, nsamples>>, err)
                     ELSE Returned("sample_ylm", p, <<t, nsamples>>,
                                   sample_ylm(heap[p], streams, t, nsamples))
        /\ streams' = IF err # NoError THEN streams
                      ELSE Advance(streams, heap[p].random)
        /\ UNCHANGED <<heap, parents>>

(***************************************************************************)
(* StarryProcess.sample(t, nsamples, eps): samples of the light curve.     *)
(* Marginalizing over inclination, a sample is held as the flux mean, the  *)
(* factor of the flux covariance and the draw; otherwise as the design     *)
(* matrix and the surface sample it projects.                              *)
(***************************************************************************)
sample(self, s, t, nsamples, eps) ==
    IF self.marginalize_over_inclination
    THEN Tab(LAMBDA k : [mean |-> mean(self, t),
                         cho |-> cho_factor_x(XMatAdd(cov(self, t),
                                     XMatScale(eps, Identity(Len(t))))),
                         u |-> Column(Normal(s, self.random, Len(t), nsamples), k)],
             nsamples)
    ELSE Tab(LAMBDA k : [A |-> design_matrix(t),
                         ylm |-> sample_ylm(self, s, None, nsamples)[k]],
             nsamples)

\* heap[p].sample(t, nsamples = nsamples, eps = eps)
Sample(p, t, nsamples, eps) ==
    /\ TotalDraws < MaxDraws
    /\ lastOp' = Returned("sample", p, <<t, nsamples, eps>>,
                          sample(heap[p], streams, t, nsamples, eps))
    /\ streams' = Advance(streams, heap[p].random)
    /\ UNCHANGED <<heap, parents>>

\* heap[p].mean(t)
MeanOf(p, t) ==
    /\ lastOp' = Returned("mean", p, <<t>>, mean(heap[p], t))
    /\ UNCHANGED <<heap, streams, parents>>

\* heap[p].cov(t)
CovOf(p, t) ==
    /\ lastOp' = Returned("cov", p, <<t>>, cov(heap[p], t))
    /\ UNCHANGED <<heap, streams, parents>>

\* heap[p].log_likelihood(t, flux, data_cov)
LogLikelihoodOf(p, t, flux, data_cov) ==
    /\ lastOp' = Returned("log_likelihood", p, <<t, flux, data_cov>>,
                          log_likelihood(heap[p], t, flux, data_cov, RZero,
                                         RZero).value)
    /\ UNCHANGED <<heap, streams, parents>>

(***************************************************************************)
(* The hyperparameter accessors.  special_property answers for a composed  *)
(* process with the list of its children's answers, and for any other      *)
(* process with the process's own.                                         *)
(***************************************************************************)
Accessors ==
    {"a", "b", "mu", "sigma", "c", "n", "r", "dr", "tau", "temporal_kernel"}

\* the body of the accessor 'name' on a leaf
Attribute(self, name) ==
    CASE name = "a" -> self.latitude.a[1]
      [] name = "b" -> self.latitude.b[1]
      [] name = "mu" ->
           beta2gauss(self.latitude.a[1], self.latitude.b[1])[1]
      [] name = "sigma" ->
           beta2gauss(self.latitude.a[1], self.latitude.b[1])[2]
      [] name = "c" -> self.contrast.c
      [] name = "n" -> self.contrast.n
      [] name = "r" -> RMul(self.size.r, RDiv(RInt(180), Pi))
      [] name = "dr" -> RMul(self.size.dr[1], RDiv(RInt(180), Pi))
      [] name = "tau" -> self.tau
      [] name = "temporal_kernel" -> self.temporal_kernel

\* (every entry of the list the first child's answer)
special_property_first(h, p, name) ==
    IF h[p].kind = "sum"
    THEN Tab(LAMBDA k : Attribute(h[h[p].children[1]], name),
             Len(h[p].children))
    ELSE Attribute(h[p], name)

RECURSIVE special_property(_, _, _)
special_property(h, p, name) ==
    IF h[p].kind = "sum"
    THEN Tab(LAMBDA k : special_property(h, h[p].children[k], name),
             Len(h[p].children))
    ELSE Attribute(h[p], name)

\* the leaves whose half-width was given at construction
HalfWidthGiven(h, p) ==
    \A q \in {p} \cup {h[p].children[k] : k \in 1..Len(h[p].children)} :
        h[q].kind = "leaf" => h[q].size.dr # None

\* getattr(heap[p], name)
Accessor(p, name) ==
    /\ name = "dr" => HalfWidthGiven(heap, p)
    /\ lastOp' = Returned(name, p, <<>>, special_property(heap, p, name))
    /\ UNCHANGED <<heap, streams, parents>>

(***************************************************************************)
(* StarryProcess.__radd__(other), reached by 'other + process' when other  *)
(* is no process, and the builtin sum(list), which starts from the integer *)
(* 0 and adds the items from the left.  A value that is no process is      *)
(* held as its literal.                                                    *)
(***************************************************************************)
NonProcessValues == {"0", "0.0", "False", "1", "None", "'x'"}

\* other == 0
EqualsZero(v) == v \in {"0", "0.0", "False"}

\* (0 treated as any other value)
RightAddErrorStrict(h, p, v) == SumError(h, p, 0)

\* what v + h[p] raises
RightAddError(h, p, v) == IF EqualsZero(v) THEN NoError ELSE SumError(h, p, 0)

\* v + heap[p]
RightAdd ==
    /\ IsPending("__radd__")
    /\ LET p == lastOp.id
           err == RightAddError(heap, p, lastOp.args[1])
       IN  lastOp' = IF err # NoError
                     THEN Raised("__radd__", p, lastOp.args, err)
                     ELSE Returned("__radd__", p, lastOp.args, p)
    /\ UNCHANGED <<heap, streams, parents>>

\* the fold of sum(list) from item k on, acc being the running total (0 for
\* the integer 0): the heap and history once done, the object returned and
\* the error raised
RECURSIVE SumFold(_, _, _, _, _)
SumFold(h, par, acc, list, k) ==
    IF k > Len(list)
    THEN [heap |-> h, parents |-> par, result |-> acc, err |-> NoError]
    ELSE IF acc = 0
         THEN IF RightAddError(h, list[k], "0") # NoError
              THEN [heap |-> h, parents |-> par, result |-> 0,
                    err |-> RightAddError(h, list[k], "0")]
              ELSE SumFold(h, par, list[k], list, k + 1)
    ELSE IF SumError(h, acc, list[k]) # NoError
         THEN [heap |-> h, parents |-> par, result |-> 0,
               err |-> SumError(h, acc, list[k])]
    ELSE SumFold(HeapAfterSum(h, acc, list[k]),
                 Append(par, <<acc, list[k]>>), Len(h) + 1, list, k + 1)

\* sum(list), list holding processes of the heap
BuiltinSum ==
    /\ IsPending("sum")
    /\ LET done == SumFold(heap, parents, 0, lastOp.args[1], 1)
       IN  IF done.err # NoError
           THEN /\ lastOp' = Raised("sum", 0, lastOp.args, done.err)
                /\ UNCHANGED <<heap, parents>>
           ELSE /\ lastOp' = Returned("sum", done.result, lastOp.args,
                                      done.result)
                /\ heap' = done.heap
                /\ parents' = done.parents
    /\ UNCHANGED streams

(***************************************************************************)
(* SpecSum: three leaves and the composition of the first two; the caller  *)
(* right-adds a value that is no process to one of them, or sums a list of *)
(* them.                                                                   *)
(***************************************************************************)
MaxList == 3
SumArgs ==
    {<<DefaultArgs(1), DefaultArgs(2), DefaultArgs(3)>>,
     <<DefaultArgs(2), DefaultArgs(2), DefaultArgs(1)>>,
     <<DefaultArgs(1), DefaultArgs(3),
       Args(DefaultYdeg, DefaultUdeg, TRUE, TRUE, DefaultCovpts, Some(1), 2)>>,
     <<DefaultArgs(3), DefaultArgs(1),
       Args(MinYdeg, DefaultUdeg, TRUE, TRUE, DefaultCovpts, None, 2)>>}
SumLists == UNION {[1..n -> 1..4] : n \in 0..MaxList}

InitSum ==
    \E as \in SumArgs :
        /\ heap = HeapAfterSum(Tab(LAMBDA k : StarryProcessInit(as[k], k), 3),
                               1, 2)
        /\ streams = Tab(LAMBDA k : [seed |-> as[k].seed, draws |-> 0], 3)
        /\ parents = <<<<0, 0>>, <<0, 0>>, <<0, 0>>, <<1, 2>>>>
        /\ \/ \E p \in 1..4, v \in NonProcessValues :
                lastOp = Pending("__radd__", p, <<v>>)
           \/ \E list \in SumLists : lastOp = Pending("sum", 0, <<list>>)

NextSum == RightAdd \/ BuiltinSum

SpecSum == InitSum /\ [][NextSum]_vars

(***************************************************************************)
(* SpecCalls: two leaves; the caller composes them in either order and     *)
(* calls the methods of the leaves and of the compositions in any order.   *)
(***************************************************************************)
\* StarryProcess(..., seed, normalization_order, normalization_zmax, mx, my,
\* r, dr, c, n, mu, sigma), every one scaled by k
WithHyper(a, seed, k) ==
    [a EXCEPT !.seed = seed]
      @@ ("normalization_order" :> 10 * k) @@ ("normalization_zmax" :> RInt(k))
      @@ ("mx" :> 100 * k) @@ ("my" :> 50 * k)
      @@ ("r" :> RInt(10 * k)) @@ ("dr" :> Some(RInt(k)))
      @@ ("c" :> Rat(k, 4)) @@ ("n" :> RInt(k))
      @@ ("mu" :> Some(RInt(30 * k))) @@ ("sigma" :> Some(RInt(5 * k)))
CallArg(normalized, moi, tau, pop) ==
    Args(DefaultYdeg, DefaultUdeg, normalized, moi, DefaultCovpts, tau, pop)
CallPairs ==
    {<<WithHyper(CallArg(FALSE, FALSE, None, 3), 0, 1),
       WithHyper(CallArg(FALSE, FALSE, None, 1), 0, 2)>>,
     <<DefaultArgs(1), WithHyper(DefaultArgs(2), 1, 2)>>,
     <<CallArg(FALSE, FALSE, Some(1), 3), CallArg(FALSE, FALSE, None, 1)>>}
CallTimes == {<<0>>, <<0, 1>>}
SampleCounts == {1, 2}

InitCalls == \E ab \in CallPairs : Built(ab)

NextCalls ==
    \/ \E i, j \in 1..2 : i # j /\ Add(i, j, 4)
    \/ \E p \in Procs : LogJac(p)
    \/ \E p \in Procs, t \in {None} \cup {Some(x) : x \in CallTimes},
          nsamples \in SampleCounts : SampleYlmAt(p, t, nsamples)
    \/ \E p \in Procs, nsamples \in SampleCounts :
          Sample(p, <<1>>, nsamples, Rat(1, 100))
    \/ \E p \in Procs : SampleYlmConditional(p)
    \/ \E p \in Procs, t \in CallTimes : MeanOf(p, t)
    \/ \E p \in Procs : CovOf(p, <<1>>)
    \/ \E p \in Procs :
          LogLikelihoodOf(p, <<1>>, <<ROne>>, Scalar(ROne))
    \/ \E p \in Procs, name \in Accessors : Accessor(p, name)

SpecCalls == InitCalls /\ [][NextCalls]_vars

-----------------------------------------------------------------------------
(* Ghost operators over the composition history. *)

IsSum(p) == parents[p] # <<0, 0>>
Sums == {p \in Procs : IsSum(p)}

\* the leaf operands of a process, left to right, with repetition
RECURSIVE LeavesOf(_)
LeavesOf(p) ==
    IF IsSum(p) THEN LeavesOf(parents[p][1]) \o LeavesOf(parents[p][2])
    ELSE <<p>>

\* the children of an operand, or the operand itself when it is a leaf
ChildrenOrSelf(p) == IF heap[p].kind = "sum" THEN heap[p].children ELSE <<p>>

\* the settings two operands must share, in the order they are compared
Settings ==
    <<"ydeg", "udeg", "normalized", "marginalize_over_inclination", "covpts">>

Setting(p, k) ==
    CASE k = 1 -> Some(heap[p].ydeg)
      [] k = 2 -> Some(heap[p].udeg)
      [] k = 3 -> Some(heap[p].normalized)
      [] k = 4 -> Some(heap[p].marginalize_over_inclination)
      [] k = 5 -> Some(heap[p].covpts)

\* position k of the comparison order fails for the operands i and j
Fails(i, j, k) ==
    IF k <= Len(Settings) THEN Setting(i, k) # Setting(j, k)
    ELSE heap[i].time_variable \/ heap[j].time_variable

Checks == 1..(Len(Settings) + 1)

MessageOf ==
    <<ErrYdeg, ErrUdeg, ErrNormalized, ErrInclination, ErrCovpts,
      ErrTimeVariable>>

-----------------------------------------------------------------------------
\* C1: the mean and the covariance of a composed process are the entrywise
\* sums of its two operands' means and covariances; a process composed with
\* itself has twice the mean and twice the covariance of that process.
SumOfMoments ==
    \A p \in Sums :
        LET first == heap[parents[p][1]]
            second == heap[parents[p][2]]
        IN  /\ \A i \in Idx :
                heap[p].mean_ylm[i] = RAdd(first.mean_ylm[i], second.mean_ylm[i])
            /\ \A i \in Idx, j \in Idx :
                heap[p].cov_ylm[i][j]
                    = RAdd(first.cov_ylm[i][j], second.cov_ylm[i][j])
            /\ parents[p][1] = parents[p][2] =>
                /\ heap[p].mean_ylm = VecScale(2, first.mean_ylm)
                /\ heap[p].cov_ylm = MatScale(2, first.cov_ylm)

\* a process composed with itself, composed again with a leaf
SumOfMomentsWitness ==
    \E p \in Sums, q \in Sums :
        /\ parents[p][1] = parents[p][2]
        /\ parents[q] = <<p, parents[p][1]>>
        /\ heap[q].cov_ylm # heap[p].cov_ylm

\* C2: every child of a composed process is a leaf that is not time-variable
\* and has the ydeg, udeg, normalized, marginalize_over_inclination and
\* covpts of the composed process; a composed process is never time-variable.
ChildrenInvariant ==
    \A p \in Procs :
        heap[p].kind = "sum" =>
            /\ heap[p].time_variable = FALSE
            /\ \A k \in 1..Len(heap[p].children) :
                LET c == heap[p].children[k]
                IN  /\ c \in Procs
                    /\ heap[c].kind = "leaf"
                    /\ heap[c].time_variable = FALSE
                    /\ \A f \in 1..Len(Settings) : Setting(c, f) = Setting(p, f)

\* a composition of a composition, while a time-variable leaf and a leaf
\* with other settings exist
ChildrenInvariantWitness ==
    /\ \E p \in Procs :
        /\ heap[p].kind = "sum"
        /\ Len(heap[p].children) = 3
        /\ heap[p].ydeg = MinYdeg
    /\ lastOp.op = "add"

\* C3: composing two processes that differ in any of ydeg, udeg, normalized,
\* marginalize_over_inclination or covpts, or of which either is
\* time-variable, or whose second operand is not a process, fails: there is
\* an error and no composed process.
CompositionFails ==
    [][\A i \in Procs, j \in Procs \cup {0} :
         (/\ \/ j = 0
             \/ \E f \in 1..Len(Settings) : Setting(i, f) # Setting(j, f)
             \/ heap[i].time_variable
             \/ heap[j].time_variable
          /\ Add(i, j, 3))
         => /\ lastOp'.err # NoError
            /\ lastOp'.id = 0
            /\ heap' = heap]_vars

\* a failed composition of two leaves that differ in covpts only
CompositionFailsWitness ==
    /\ lastOp.op = "add"
    /\ lastOp.err = ErrCovpts
    /\ Len(heap) = 2
    /\ \A f \in 1..4 : Setting(1, f) = Setting(2, f)
    /\ ~heap[1].time_variable /\ ~heap[2].time_variable

\* C4: when a composition of two processes fails, the error message names
\* the first failing comparison in the order ydeg, udeg, normalized,
\* marginalize_over_inclination, covpts, time variability.
FirstMismatchReported ==
    [][\A i \in Procs, j \in Procs :
         (lastOp'.err # NoError /\ Add(i, j, 3))
         => \E k \in Checks :
                /\ Fails(i, j, k)
                /\ \A m \in 1..(k - 1) : ~Fails(i, j, m)
                /\ lastOp'.err = MessageOf[k]]_vars

\* a failed composition of leaves that differ in udeg, in covpts and in
\* time variability, reported as a mismatch in udeg
FirstMismatchReportedWitness ==
    /\ lastOp.op = "add"
    /\ lastOp.err = ErrUdeg
    /\ Len(heap) = 2
    /\ heap[1].ydeg = heap[2].ydeg
    /\ heap[1].covpts # heap[2].covpts
    /\ heap[1].normalized # heap[2].normalized
    /\ heap[2].time_variable

\* C5: the children of a composed process are the children of its first
\* operand followed by those of its second, a leaf operand counting as
\* itself: the list is flat, holds no composed process, and is as long as
\* the number of leaf operands combined, with repetition.
ChildrenFlattened ==
    \A p \in Sums :
        /\ heap[p].children
             = ChildrenOrSelf(parents[p][1]) \o ChildrenOrSelf(parents[p][2])
        /\ \A k \in 1..Len(heap[p].children) :
             heap[heap[p].children[k]].kind = "leaf"
        /\ heap[p].children = LeavesOf(p)

\* the composition of (A + B) with (B + C)
ChildrenFlattenedWitness ==
    /\ Len(heap) = 8
    /\ parents[8] = <<4, 6>>
    /\ heap[8].children = <<1, 2, 2, 3>>

\* C6: composition is associative: composed processes built from the same
\* leaf operands in the same order, however grouped, have the same mean,
\* the same covariance and the same children list; (A + B) + C and
\* A + (B + C) both have the children A, B, C.
Associative ==
    /\ \A p \in Sums, q \in Sums :
         LeavesOf(p) = LeavesOf(q) =>
             /\ heap[p].mean_ylm = heap[q].mean_ylm
             /\ heap[p].cov_ylm = heap[q].cov_ylm
             /\ heap[p].children = heap[q].children
    /\ \A p \in Sums, q \in Sums :
         (parents[p] = <<4, 3>> /\ parents[q] = <<1, 6>>) =>
             /\ heap[p].children = <<1, 2, 3>>
             /\ heap[q].children = <<1, 2, 3>>
             /\ heap[p].mean_ylm = heap[q].mean_ylm
             /\ heap[p].cov_ylm = heap[q].cov_ylm

\* (A + B) + C and A + (B + C) of three leaves with different moments
AssociativeWitness ==
    /\ Len(heap) >= 7
    /\ parents[4] = <<1, 2>> /\ parents[5] = <<4, 3>>
    /\ parents[6] = <<2, 3>> /\ parents[7] = <<1, 6>>
    /\ heap[1].pop = 1 /\ heap[2].pop = 2 /\ heap[3].pop = 3

\* C7: a composition never modifies its operands or any other existing
\* process, and draws from no stream; when it succeeds its result is a new
\* object, distinct from both operands; when it fails nothing is created.
OperandsUnmodified ==
    [][(lastOp'.op = "add" /\ vars' # vars) =>
         /\ Len(heap') >= Len(heap)
         /\ \A p \in Procs : heap'[p] = heap[p]
         /\ streams' = streams
         /\ IF lastOp'.err = NoError
            THEN /\ Len(heap') = Len(heap) + 1
                 /\ lastOp'.id = Len(heap')
                 /\ lastOp'.id \notin Procs
                 /\ parents'[lastOp'.id][1] \in Procs
                 /\ parents'[lastOp'.id][2] \in Procs
            ELSE heap' = heap]_vars

\* a composition whose first operand is itself a composed process
OperandsUnmodifiedWitness ==
    /\ lastOp.op = "add"
    /\ lastOp.err = NoError
    /\ heap[parents[lastOp.id][1]].kind = "sum"
    /\ Len(heap[lastOp.id].children) > Len(heap[parents[lastOp.id][1]].children)

\* C8: the cached factor, precision matrix and precision-weighted mean of
\* every process, composed or not, are those of its own current moments:
\* the factor reproduces the covariance, the precision matrix inverts it,
\* and the covariance applied to the weighted mean gives the mean. On a
\* composed process the factor and the precision matrix are neither an
\* operand's nor the sum of the operands'.
CachesFromOwnMoments ==
    \A p \in Procs :
        /\ heap[p].cho_cov_ylm = cho_factor(heap[p].cov_ylm)
        /\ heap[p].LInv = cho_solve_mat(heap[p].cho_cov_ylm, Eye)
        /\ heap[p].LInvmu = cho_solve_vec(heap[p].cho_cov_ylm, heap[p].mean_ylm)
        /\ MatMul(heap[p].cov_ylm, heap[p].LInv) = Eye
        /\ MatVec(heap[p].cov_ylm, heap[p].LInvmu) = heap[p].mean_ylm
        /\ IsSum(p) =>
            LET first == heap[parents[p][1]]
                second == heap[parents[p][2]]
            IN  /\ heap[p].LInv \notin
                     {first.LInv, second.LInv, MatAdd(first.LInv, second.LInv)}
                /\ heap[p].cho_cov_ylm \notin
                     {first.cho_cov_ylm, second.cho_cov_ylm}

\* a composed process whose operands have different moments
CachesFromOwnMomentsWitness ==
    \E p \in Sums :
        /\ heap[parents[p][1]].kind = "sum"
        /\ heap[parents[p][1]].cov_ylm # heap[parents[p][2]].cov_ylm
        /\ heap[parents[p][1]].mean_ylm # heap[parents[p][2]].mean_ylm

\* C9: a composed process holds the very stream object of its first operand,
\* which through nesting is the stream of its leftmost leaf; a draw made
\* through the composed process advances that stream, and so the stream the
\* first operand sees, and no other stream.
SharedStream ==
    [][/\ \A p \in 1..Len(heap') :
            heap'[p].kind = "sum" =>
                /\ heap'[p].random = heap'[parents'[p][1]].random
                /\ heap'[p].random = heap'[heap'[p].children[1]].random
       /\ \A p \in Procs :
            (lastOp'.op = "sample_ylm" /\ lastOp'.id = p /\ IsSum(p)) =>
                LET sid == heap[parents[p][1]].random
                IN  /\ streams'[sid].draws = streams[sid].draws + 1
                    /\ streams'[heap[LeavesOf(p)[1]].random].draws
                         = streams[sid].draws + 1
                    /\ \A t \in 1..Len(streams) :
                         t # sid => streams'[t] = streams[t]]_vars

\* a draw through (A + B) + C has advanced the stream of A
SharedStreamWitness ==
    /\ lastOp.op = "sample_ylm"
    /\ lastOp.id = 5
    /\ parents[5] = <<4, 3>>
    /\ streams[heap[1].random].draws = 1
    /\ heap[1].random # heap[3].random

\* the checks of the conditional sampler, in order
ConditionalChecks(p) ==
    <<<<heap[p].marginalize_over_inclination, ErrCondInclination>>,
      <<heap[p].normalized, ErrCondNormalized>>,
      <<heap[p].time_variable, ErrCondTimeVariable>>>>

\* C10: the conditional sampler fails with the not-implemented message of
\* the first of marginalize_over_inclination, normalized, time variability
\* that is on, in that order, before drawing anything; it draws only when
\* all three are off.
ConditionalOrder ==
    [][\A p \in Procs :
         (lastOp'.op = "sample_ylm_conditional" /\ lastOp'.id = p) =>
            LET c == ConditionalChecks(p)
                on == {k \in 1..Len(c) : c[k][1]}
            IN  /\ on # {} =>
                    /\ \E k \in on :
                         /\ \A m \in on : k <= m
                         /\ lastOp'.err = c[k][2]
                    /\ streams' = streams
                    /\ heap' = heap
                /\ on = {} =>
                    /\ lastOp'.err = NoError
                    /\ streams'[heap[p].random].draws
                         = streams[heap[p].random].draws + 1]_vars

\* the sampler refused on a process with all three on, after it drew once
\* on a process with all three off
ConditionalOrderWitness ==
    /\ lastOp.op = "sample_ylm_conditional"
    /\ lastOp.err = ErrCondInclination
    /\ heap[lastOp.id].normalized
    /\ heap[lastOp.id].time_variable
    /\ \E q \in Procs :
         /\ ~heap[q].marginalize_over_inclination
         /\ ~heap[q].normalized
         /\ ~heap[q].time_variable
         /\ streams[heap[q].random].draws = 1

-----------------------------------------------------------------------------
\* C18: for mu and nu strictly inside (0, 1), get_alpha_beta returns
\* alpha = mu * (1 / nu - 1) and beta = (1 - mu) * (1 / nu - 1), element by
\* element, so that alpha / (alpha + beta) is mu and 1 / (alpha + beta + 1)
\* is nu; get_alpha_beta(1/2, 1/2) returns alpha = beta = 1/2.
AlphaBetaInverts ==
    (/\ HasReturned("get_alpha_beta")
     /\ \A x \in {lastOp.args[1], lastOp.args[2]} :
            \A k \in 1..Len(x) : RLess(RZero, x[k]) /\ RLess(x[k], ROne))
    => /\ lastOp.err = NoError
       /\ lastOp.out # None
       /\ LET mu == lastOp.args[1]
              nu == lastOp.args[2]
              n == IF Len(mu) > Len(nu) THEN Len(mu) ELSE Len(nu)
              alpha == lastOp.out[1].alpha
              beta == lastOp.out[1].beta
          IN  /\ Len(alpha) = n /\ Len(beta) = n
              /\ \A k \in 1..n :
                   LET m == IF Len(mu) = 1 THEN mu[1] ELSE mu[k]
                       v == IF Len(nu) = 1 THEN nu[1] ELSE nu[k]
                       a == alpha[k]
                       b == beta[k]
                   IN  /\ a = RMul(m, RSub(RDiv(ROne, v), ROne))
                       /\ b = RMul(RSub(ROne, m), RSub(RDiv(ROne, v), ROne))
                       /\ RDiv(a, RAdd(a, b)) = m
                       /\ RDiv(ROne, RAdd(RAdd(a, b), ROne)) = v
              /\ (mu = <<RHalf>> /\ nu = <<RHalf>>) =>
                   (alpha = <<RHalf>> /\ beta = <<RHalf>>)

\* an array of means against a scalar variance, all inside (0, 1)
AlphaBetaInvertsWitness ==
    /\ HasReturned("get_alpha_beta")
    /\ lastOp.args = <<<<<<1, 4>>, <<1, 2>>>>, <<RHalf>>>>
    /\ lastOp.out = Some([alpha |-> <<<<1, 4>>, RHalf>>,
                          beta |-> <<<<3, 4>>, RHalf>>])

\* C19: get_alpha_beta fails with a domain error and returns no value
\* whenever an element of mu or of nu is outside the open interval (0, 1),
\* the values 0 and 1 included, even when the other elements are inside.
AlphaBetaDomain ==
    (/\ HasReturned("get_alpha_beta")
     /\ \E x \in {lastOp.args[1], lastOp.args[2]} :
            \E k \in 1..Len(x) : ~RLess(RZero, x[k]) \/ ~RLess(x[k], ROne))
    => /\ lastOp.err \in {ErrMeanDomain, ErrVarianceDomain}
       /\ lastOp.out = None

\* an array of variances of which only the second, 1, is outside
AlphaBetaDomainWitness ==
    /\ HasReturned("get_alpha_beta")
    /\ lastOp.args = <<<<RHalf>>, <<RHalf, ROne>>>>
    /\ lastOp.err = ErrVarianceDomain

\* when no eigenvalue of Q is negative, the n columns U are eigenvectors of
\* Q for its eigenvalues from the largest down, each of squared length its
\* eigenvalue
DominantColumns(Q, n, U, largest) ==
    (\A k \in 1..Len(largest) : largest[k] >= 0) =>
    /\ Len(U) = n
    /\ \A k \in 1..n :
         /\ Len(U[k].dir) = Len(Q)
         /\ Apply(Q, IntVec(U[k].dir))
              = Scaled(RInt(largest[k]), IntVec(U[k].dir))
         /\ RMul(U[k].sq, Dot(IntVec(U[k].dir), IntVec(U[k].dir)))
              = RInt(largest[k])
         /\ \A m \in 1..(k - 1) : largest[m] > largest[k]
    /\ n = Len(Q) =>
         Total(LAMBDA k : Times(U[k].sq, Outer(IntVec(U[k].dir),
                                               IntVec(U[k].dir))), n)
           = Q

\* C20: for a symmetric positive-semidefinite N-by-N matrix Q and a rank n
\* in 1..N (N when omitted), eigen returns n columns of length N; column k
\* is an eigenvector of the k-th largest eigenvalue, of squared length that
\* eigenvalue, so the columns run from dominant to least dominant, and the
\* sum of the columns' outer products is Q when n = N.
EigenDominantFirst ==
    HasReturned("eigen") =>
        DominantColumns(lastOp.args[1],
                        IF lastOp.args[2] = None THEN Len(lastOp.args[1])
                        ELSE lastOp.args[2][1],
                        lastOp.out[1],
                        Reverse(Ascending(Spectrum(lastOp.args[1]))))

\* the two dominant columns of a 3-by-3 matrix with eigenvalues 0, 1, 2,
\* the first given a negative sign
EigenDominantFirstWitness ==
    /\ HasReturned("eigen")
    /\ Len(lastOp.args[1]) = 3
    /\ lastOp.args[2] = Some(2)
    /\ Spectrum(lastOp.args[1]) = {0, 1, 2}
    /\ lastOp.args[1][1][2] # RZero
    /\ lastOp.out[1][1].dir[1] < 0


\* the entries of a matrix
Entries(A) == {A[i][j] : i \in 1..Rows(A), j \in 1..Cols(A)}
\* the quantities of a _normalize(mu, Sig) call, from its arguments
MeanOfEntries(Sig) ==
    XDiv(XSum(LAMBDA k : Sig[((k - 1) \div Cols(Sig)) + 1][((k - 1) % Cols(Sig)) + 1],
              Rows(Sig) * Cols(Sig)),
         RInt(Rows(Sig) * Cols(Sig)))
ExpansionParameter(mu, Sig) == XDiv(MeanOfEntries(Sig), XMul(mu, mu))
AboveZmax(self, mu, Sig) == XGreater(ExpansionParameter(mu, Sig), self.normzmax)

\* C12: when z exceeds normalization_zmax, every entry of the matrix that
\* _normalize returns is +infinity, whatever the entry of Sig it stands for.
NormalizeAllInfinite ==
    (HasReturned("_normalize")
        /\ AboveZmax(heap[1], lastOp.args[1], lastOp.args[2]))
    => Entries(lastOp.out[1]) = {Inf}


\* the series-expansion covariance, from mu and Sig
XOuter(u, v) == Grid(LAMBDA i, j : XMul(u[i], v[j]), Len(u), Len(v))
XMatSub(A, B) == XMatAdd(A, XMatScale(XNeg(ROne), B))
RowSumsOverMean(Sig) ==
    LET ones == Tab(LAMBDA k : ROne, Cols(Sig))
        Km == XMul(RInt(Rows(Sig)), MeanOfEntries(Sig))
    IN  Tab(LAMBDA i : XDiv(XApply(Sig, ones)[i], Km), Rows(Sig))
SeriesCovariance(mu, Sig) ==
    LET z == ExpansionParameter(mu, Sig)
        q == RowSumsOverMean(Sig)
        p == Tab(LAMBDA i : XSub(ROne, q[i]), Len(q))
        ab == AlphaBetaOp(z)
    IN  XMatAdd(XMatScale(XDiv(ab.alpha, XMul(mu, mu)), Sig),
                XMatScale(z, XMatSub(XMatScale(XAdd(ab.alpha, ab.beta), XOuter(p, p)),
                                     XMatScale(ab.alpha, XOuter(q, q)))))
\* what cov(t) hands to _normalize
LevelOf(self, t) == XAdd(ROne, XDot(design_matrix(t)[1], self.mean_ylm))
KernelledFluxCov(self, t) ==
    Grid(LAMBDA i, j : XMul(FluxCov(self, t)[i][j],
                            IF self.time_variable /\ t[i] # t[j] THEN RHalf ELSE ROne),
         Len(t), Len(t))

\* C17: for z not above normalization_zmax, _normalize(mu, Sig) returns
\* alpha/mu^2 Sig + z ((alpha + beta) p p^T - alpha q q^T), and cov(t) of a
\* normalized process is that matrix for mu = 1 + flux mean and Sig the flux
\* covariance of the call.
SeriesExpansion ==
    /\ (HasReturned("_normalize")
          /\ ~AboveZmax(heap[1], lastOp.args[1], lastOp.args[2]))
       => lastOp.out[1] = SeriesCovariance(lastOp.args[1], lastOp.args[2])
    /\ (HasReturned("cov") /\ heap[1].normalized
          /\ ~AboveZmax(heap[1], LevelOf(heap[1], lastOp.args[1]),
                        KernelledFluxCov(heap[1], lastOp.args[1])))
       => lastOp.out[1] = SeriesCovariance(LevelOf(heap[1], lastOp.args[1]),
                                           KernelledFluxCov(heap[1], lastOp.args[1]))
SeriesExpansionWitness ==
    /\ HasReturned("cov")
    /\ heap[1].normalized
    /\ Len(lastOp.args[1]) > 1
    /\ ~AboveZmax(heap[1], LevelOf(heap[1], lastOp.args[1]),
                  KernelledFluxCov(heap[1], lastOp.args[1]))
    /\ AllFinite(lastOp.out[1])
    /\ lastOp.out[1] # KernelledFluxCov(heap[1], lastOp.args[1])


\* the arguments of a log_likelihood or sample_ylm_conditional call
ObsT == lastOp.args[1]
ObsFlux == lastOp.args[2]
ObsDataCov == lastOp.args[3]
ObsBaselineMean == lastOp.args[4]
ObsBaselineVar == lastOp.args[5]
\* whether cov(t) of a normalized process is past the threshold
PastZmax(self, t) ==
    self.normalized
      /\ AboveZmax(self, LevelOf(self, t), KernelledFluxCov(self, t))

\* C11: on a normalized process, log_likelihood returns negative infinity
\* whenever z = mean(Sig) / mu^2 exceeds normalization_zmax, for every flux,
\* data covariance and baseline.
LikelihoodRejectsPastZmax ==
    (HasReturned("log_likelihood") /\ PastZmax(heap[1], ObsT))
    => lastOp.out[1].value = NegativeInfinity
LikelihoodRejectsPastZmaxWitness ==
    /\ HasReturned("log_likelihood")
    /\ PastZmax(heap[1], ObsT)
    /\ Len(ObsT) > 1
    /\ ObsBaselineVar # RZero
    /\ ObsDataCov.ndim = 2
    /\ lastOp.out[1].value = NegativeInfinity

\* C13: log_likelihood never returns not-a-number: a computed value that is
\* NaN is returned as negative infinity, any other computed value unchanged.
LikelihoodNeverNaN ==
    HasReturned("log_likelihood")
    => /\ lastOp.out[1].value.kind # "nan"
       /\ lastOp.out[1].lnlike.kind = "nan"
            => lastOp.out[1].value = NegativeInfinity
       /\ lastOp.out[1].lnlike.kind # "nan"
            => lastOp.out[1].value = lastOp.out[1].lnlike
LikelihoodNeverNaNWitness ==
    /\ HasReturned("log_likelihood")
    /\ lastOp.out[1].lnlike.kind = "nan"
    /\ lastOp.out[1].value = NegativeInfinity

\* the data covariance the arguments describe, entry by entry
DataCovEntry(data_cov, i, j) ==
    IF data_cov.ndim = 0 THEN (IF i = j THEN data_cov.v[1][1] ELSE RZero)
    ELSE IF data_cov.ndim = 1 THEN (IF i = j THEN data_cov.v[1][i] ELSE RZero)
    ELSE data_cov.v[i][j]
SameEntries(A, n, F(_, _)) ==
    /\ Rows(A) = n
    /\ \A i \in 1..n : Len(A[i]) = n /\ \A j \in 1..n : A[i][j] = F(i, j)
FactoredAsStated(out, gp_cov, data_cov, baseline_var) ==
    /\ SameEntries(out.C, Rows(gp_cov), LAMBDA i, j : DataCovEntry(data_cov, i, j))
    /\ SameEntries(out.gp_cov, Rows(gp_cov),
                   LAMBDA i, j : XAdd(XAdd(gp_cov[i][j], DataCovEntry(data_cov, i, j)),
                                      baseline_var))

\* C14: the data covariance is s I for a scalar s, diag(v) for a vector v and
\* the matrix itself for a matrix; baseline_var is added to every entry; the
\* matrix log_likelihood factors is gp_cov + C + baseline_var, and the data
\* covariance of sample_ylm_conditional is C + baseline_var.
DataCovByDimension ==
    /\ HasReturned("log_likelihood")
       => FactoredAsStated(lastOp.out[1], cov(heap[1], ObsT), ObsDataCov,
                           ObsBaselineVar)
    /\ (HasReturned("sample_ylm_conditional") /\ lastOp.err = NoError)
       => SameEntries(lastOp.out[1].C, Len(ObsFlux),
                      LAMBDA i, j : XAdd(DataCovEntry(ObsDataCov, i, j),
                                         ObsBaselineVar))
DataCovByDimensionWitness ==
    /\ HasReturned("log_likelihood")
    /\ Len(ObsT) > 1
    /\ ObsDataCov.ndim = 1
    /\ ObsBaselineVar # RZero
    /\ AllFinite(lastOp.out[1].gp_cov)
    /\ lastOp.out[1].gp_cov[1][2] # cov(heap[1], ObsT)[1][2]

\* determinant and inverse by cofactors
Minor(M, a, b) ==
    Grid(LAMBDA i, j : M[IF i < a THEN i ELSE i + 1][IF j < b THEN j ELSE j + 1],
         Rows(M) - 1, Rows(M) - 1)
Alternating(k, x) == IF k % 2 = 0 THEN x ELSE XNeg(x)
RECURSIVE Det(_)
Det(M) ==
    IF Rows(M) = 0 THEN ROne
    ELSE XSum(LAMBDA j : Alternating(1 + j, XMul(M[1][j], Det(Minor(M, 1, j)))),
              Rows(M))
Leading(M, n) == Grid(LAMBDA i, j : M[i][j], n, n)
PositiveDefinite(M) ==
    AllFinite(M) /\ \A n \in 1..Rows(M) : XGreater(Det(Leading(M, n)), RZero)
InverseGiven(M, det) ==
    Grid(LAMBDA i, j : XDiv(Alternating(i + j, Det(Minor(M, j, i))), det),
         Rows(M), Rows(M))
Inverse(M) == InverseGiven(M, Det(M))
QuadraticForm(M, r) == XDot(r, XApply(M, r))

\* the covariance and the residual of the Gaussian the call evaluates
GaussianCov(gp_cov, data_cov, baseline_var) ==
    Grid(LAMBDA i, j : XAdd(XAdd(gp_cov[i][j], DataCovEntry(data_cov, i, j)),
                            baseline_var),
         Rows(gp_cov), Rows(gp_cov))
GaussianResidual(flux, gp_mean, baseline_mean) ==
    XVecSub(XVecSub(flux, gp_mean), Tab(LAMBDA k : baseline_mean, Len(flux)))
GaussianDensity(Sigma, r) ==
    [kind |-> "finite", q |-> QuadraticForm(Inverse(Sigma), r), d |-> Det(Sigma),
     K |-> Len(r)]
DensityAgrees(value, Sigma, r) ==
    PositiveDefinite(Sigma) => value = GaussianDensity(Sigma, r)

\* C15: log_likelihood is -r^T Sigma^-1 r / 2 - sum(log(diag(L))) - K log(2 pi) / 2
\* with Sigma = gp_cov + C + baseline_var and r = flux - gp_mean -
\* baseline_mean: the quadratic form and the determinant it is built from are
\* those of the direct inverse of Sigma.
LikelihoodIsGaussian ==
    HasReturned("log_likelihood")
    => DensityAgrees(lastOp.out[1].value,
                     GaussianCov(cov(heap[1], ObsT), ObsDataCov, ObsBaselineVar),
                     GaussianResidual(ObsFlux, mean(heap[1], ObsT), ObsBaselineMean))
LikelihoodIsGaussianWitness ==
    /\ HasReturned("log_likelihood")
    /\ Len(ObsT) > 1
    /\ lastOp.out[1].value.kind = "finite"
    /\ lastOp.out[1].value.q # RZero
    /\ lastOp.out[1].value.d # ROne
    /\ ObsBaselineMean # RZero
    /\ PositiveDefinite(lastOp.out[1].gp_cov)

\* the posterior the arguments describe
PosteriorW(A, CInv, LInv) == XMatAdd(XMatMul(XMatMul(Transpose(A), CInv), A), LInv)
PosteriorTarget(A, CInv, centred, LInvmu) ==
    XVecAdd(XApply(XMatMul(Transpose(A), CInv), centred), LInvmu)
Rebuilt(c) == XMatMul(XMatMul(c.L, Diag(c.D)), Transpose(c.L))
PosteriorAgrees(out, W, target) ==
    /\ PositiveDefinite(W)
    /\ out.ycov = Inverse(W)
    /\ out.ymu = XApply(Inverse(W), target)
    /\ Rebuilt(out.cho_ycov) = out.ycov
PosteriorAsStated(self, out, A, CInv, centred) ==
    PosteriorAgrees(out, PosteriorW(A, CInv, Inverse(self.cov_ylm)),
                    PosteriorTarget(A, CInv, centred,
                                    XApply(Inverse(self.cov_ylm), self.mean_ylm)))

\* C16: a supported sample_ylm_conditional call samples from the Gaussian
\* with covariance W^-1 and mean W^-1 (A^T C^-1 (flux - baseline_mean) +
\* cov_ylm^-1 mean_ylm), W = A^T C^-1 A + cov_ylm^-1, C including
\* baseline_var; the sample is the mean plus the Cholesky factor of the
\* covariance applied to one standard-normal draw from the process's stream.
ConditionalPosteriorStated ==
    (HasReturned("sample_ylm_conditional") /\ lastOp.err = NoError)
    => /\ PosteriorAsStated(heap[1], lastOp.out[1], design_matrix(ObsT),
             Inverse(GaussianCov(Filled(RZero, Len(ObsFlux), Len(ObsFlux)),
                                 ObsDataCov, ObsBaselineVar)),
             XVecSub(ObsFlux, Tab(LAMBDA k : ObsBaselineMean, Len(ObsFlux))))
       /\ lastOp.out[1].u \in NormalDraws
       /\ streams[heap[1].random].draws = 1
ConditionalPosteriorStatedWitness ==
    /\ HasReturned("sample_ylm_conditional")
    /\ lastOp.err = NoError
    /\ Len(ObsT) > 1
    /\ ObsBaselineMean # RZero
    /\ ObsBaselineVar # RZero
    /\ lastOp.out[1].ymu # heap[1].mean_ylm
    /\ lastOp.out[1].ycov # heap[1].cov_ylm
    /\ streams[heap[1].random].draws = 1


\* a column dir * sqrt(sq) is a number in every entry iff sq >= 0, and is
\* all zeros iff sq = 0
ClippedColumns(U, largest) ==
    \A k \in 1..Len(U) :
        /\ ~RLess(U[k].sq, RZero)
        /\ largest[k] < 0 => U[k].sq = RZero
        /\ largest[k] > 0 => RLess(RZero, U[k].sq)

\* C21: eigen returns without error whatever the sign of the eigenvalues of
\* its argument; a selected eigenvalue below zero gives a column of zeros and
\* no entry of the result is the square root of a negative number.
EigenClipsNegative ==
    HasReturned("eigen") =>
        /\ lastOp.err = NoError
        /\ ClippedColumns(lastOp.out[1],
                          Reverse(Ascending(Spectrum(lastOp.args[1]))))
EigenClipsNegativeWitness ==
    /\ HasReturned("eigen")
    /\ Len(lastOp.args[1]) = 3
    /\ lastOp.args[2] = None
    /\ Spectrum(lastOp.args[1]) = {-1, 1, 2}
    /\ lastOp.args[1][1][2] # RZero
    /\ lastOp.out[1][3].sq = RZero
    /\ lastOp.out[1][2].sq # RZero


\* whether a keyword was given a value
Given(a, key) == key \in DOMAIN a /\ a[key] # None
Built1 == Len(heap) = 1 /\ lastOp.err = NoError
Refused(err) == heap = <<>> /\ lastOp.err = err

\* C22: the latitude shape is given as a and b or as mu and sigma: with
\* neither mu nor sigma, a and b as passed, or their defaults, are used;
\* with both mu and sigma and neither a nor b, a and b are derived from
\* them; every other combination fails with the ValueError.
ShapeEitherWay ==
    HasReturned("construct") =>
        LET a == lastOp.args
        IN  /\ (~Given(a, "mu") /\ ~Given(a, "sigma")) =>
                 /\ lastOp.err # ErrLatitude
                 /\ Built1 =>
                      /\ heap[1].latitude.a
                           = (IF "a" \in DOMAIN a THEN a.a ELSE Some(DefaultA))
                      /\ heap[1].latitude.b
                           = (IF "b" \in DOMAIN a THEN a.b ELSE Some(DefaultB))
            /\ (Given(a, "mu") /\ Given(a, "sigma")
                  /\ ~Given(a, "a") /\ ~Given(a, "b")) =>
                 /\ lastOp.err # ErrLatitude
                 /\ Built1 =>
                      /\ heap[1].latitude.a = Some(RDiv(a.mu[1], RInt(90)))
                      /\ heap[1].latitude.b = Some(RDiv(a.sigma[1], RInt(45)))
            /\ (Given(a, "mu") # Given(a, "sigma")
                  \/ ((Given(a, "mu") \/ Given(a, "sigma"))
                        /\ (Given(a, "a") \/ Given(a, "b")))) =>
                 Refused(ErrLatitude)
ShapeEitherWayWitness ==
    /\ HasReturned("construct")
    /\ Built1
    /\ Given(lastOp.args, "mu")
    /\ Given(lastOp.args, "sigma")
    /\ "a" \notin DOMAIN lastOp.args
    /\ "b" \notin DOMAIN lastOp.args
    /\ heap[1].latitude.a = Some(<<1, 3>>)

AllLeaves(list) == \A k \in 1..Len(list) : heap[list[k]].kind = "leaf"

\* the children of the items of a list, left to right
RECURSIVE ChildrenOfItems(_, _)
ChildrenOfItems(list, k) ==
    IF k = 0 THEN <<>>
    ELSE ChildrenOfItems(list, k - 1) \o ChildrenOrSelf(list[k])

\* every two items of a list can be composed
Composable(list) ==
    \A i, j \in 1..Len(list) :
        /\ heap[list[i]].ydeg = heap[list[j]].ydeg
        /\ ~heap[list[i]].time_variable

\* C28: right-adding a value equal to 0 returns the process itself, and
\* right-adding any other value that is no process fails with the error of
\* composing with a non-process; sum of a list of one process is that
\* process, and sum of a list of leaves A1, ..., An that can be composed is
\* a composed process whose children are A1, ..., An in that order.
SumOfList ==
    /\ HasReturned("__radd__") =>
         /\ Len(heap) = 4
         /\ IF lastOp.args[1] \in {"0", "0.0", "False"}
            THEN lastOp.err = NoError /\ lastOp.out = Some(lastOp.id)
            ELSE lastOp.err = ErrNotProcess /\ lastOp.out = None
    /\ HasReturned("sum") =>
         LET list == lastOp.args[1]
         IN  /\ Len(list) = 1 =>
                  /\ lastOp.err = NoError
                  /\ lastOp.out = Some(list[1])
                  /\ Len(heap) = 4
             /\ (Len(list) >= 2 /\ Composable(list)) =>
                  /\ lastOp.err = NoError
                  /\ Len(heap) = 4 + Len(list) - 1
                  /\ lastOp.out[1] = Len(heap)
                  /\ heap[lastOp.out[1]].kind = "sum"
                  /\ heap[lastOp.out[1]].children
                       = ChildrenOfItems(list, Len(list))
                  /\ AllLeaves(list) => heap[lastOp.out[1]].children = list
SumOfListWitness ==
    /\ HasReturned("sum")
    /\ lastOp.args[1] = <<3, 1, 2>>
    /\ lastOp.err = NoError
    /\ heap[lastOp.out[1]].children = <<3, 1, 2>>
    /\ heap[lastOp.out[1]].mean_ylm # heap[4].mean_ylm

(***************************************************************************)
(* Calls on leaves and on composed processes.                              *)
(***************************************************************************)
\* C24: log_jac returns a scalar on every process, leaf or composed.
LogJacScalar ==
    HasReturned("log_jac") =>
        /\ lastOp.err = NoError
        /\ lastOp.out # None
        /\ lastOp.out[1].ndim = 0

\* C25: sample_ylm(t, nsamples) returns, on any process and whether or not
\* a timescale is set, nsamples samples of ntimes rows of nylm entries when
\* times are given, and nsamples samples of nylm entries when they are not,
\* each of these being mean_ylm + cho_cov_ylm u.
SampleYlmShape ==
    HasReturned("sample_ylm") =>
        /\ lastOp.err = NoError
        /\ lastOp.out # None
        /\ Len(lastOp.out[1]) = lastOp.args[2]
        /\ \A k \in 1..Len(lastOp.out[1]) :
             LET y == lastOp.out[1][k]
             IN  IF lastOp.args[1] = None
                 THEN /\ y.mean = heap[lastOp.id].mean_ylm
                      /\ y.cho = heap[lastOp.id].cho_cov_ylm
                      /\ Len(y.u) = NCoef
                 ELSE /\ Len(y.U) = Len(lastOp.args[1][1])
                      /\ \A i \in 1..Len(y.U) : Len(y.U[i]) = NCoef

\* the constructor arguments of the leaf q of SpecCalls
ArgsOf(q) ==
    CHOOSE a \in {ab[q] : ab \in CallPairs} : heap[q] = StarryProcessInit(a, q)

\* the value of a hyperparameter a leaf was constructed with: as passed, or
\* the default; a and b from mu and sigma when these were passed, and mu and
\* sigma from a and b otherwise
Own(a, name) ==
    CASE name = "a" ->
           IF "mu" \in DOMAIN a THEN RDiv(a.mu[1], RInt(90)) ELSE DefaultA
      [] name = "b" ->
           IF "sigma" \in DOMAIN a THEN RDiv(a.sigma[1], RInt(45)) ELSE DefaultB
      [] name = "mu" ->
           IF "mu" \in DOMAIN a THEN a.mu[1] ELSE RMul(DefaultA, RInt(90))
      [] name = "sigma" ->
           IF "sigma" \in DOMAIN a THEN a.sigma[1] ELSE RMul(DefaultB, RInt(45))
      [] name = "c" -> IF "c" \in DOMAIN a THEN a.c ELSE DefaultC
      [] name = "n" -> IF "n" \in DOMAIN a THEN a.n ELSE RInt(DefaultN)
      [] name = "r" -> IF "r" \in DOMAIN a THEN a.r ELSE RInt(DefaultR)
      [] name = "dr" -> a.dr[1]
      [] name = "tau" -> IF a.tau = None THEN 0 ELSE a.tau[1]
      [] name = "temporal_kernel" ->
           IF a.tau = None THEN "None" ELSE "Matern32Kernel"

Called(fn) == lastOp'.op = fn \/ (lastOp'.op = "return" /\ lastOp'.fn = fn)

\* the stream of the process a step calls a method of
StreamOfCall == heap[lastOp'.id].random

\* the draw number k of the stream sid, as rows by cols numbers: a function
\* of the seed and of k alone
DrawOf(sid, rows, cols) ==
    StreamNormal(streams[sid].seed, streams[sid].draws, rows, cols)

\* C27: mean, cov, log_likelihood and log_jac leave every random stream as
\* it is, and so does a sample_ylm_conditional that fails as unsupported;
\* a stream changes only in a successful sample_ylm, sample_ylm_conditional
\* or sample, which advances the stream of the process by one draw; and the
\* numbers drawn are those the seed of the stream and the number of draws
\* made from it before determine.
StreamDiscipline ==
    [][/\ (Called("mean") \/ Called("cov") \/ Called("log_likelihood")
             \/ Called("log_jac")) => streams' = streams
       /\ (Called("sample_ylm_conditional") /\ lastOp'.err # NoError) =>
             streams' = streams
       /\ streams' # streams =>
             /\ Called("sample_ylm") \/ Called("sample_ylm_conditional")
                  \/ Called("sample")
             /\ lastOp'.err = NoError
       /\ ((Called("sample_ylm") \/ Called("sample_ylm_conditional")
              \/ Called("sample")) /\ lastOp'.err = NoError) =>
             streams' = [streams EXCEPT ![StreamOfCall].draws = @ + 1]
       /\ (Called("sample_ylm") /\ lastOp'.err = NoError
             /\ lastOp'.args[1] = None) =>
             \A k \in 1..lastOp'.args[2] :
                 lastOp'.out[1][k].u
                   = Column(DrawOf(StreamOfCall, NCoef, lastOp'.args[2]), k)
       /\ (Called("sample") /\ ~heap[lastOp'.id].marginalize_over_inclination) =>
             \A k \in 1..lastOp'.args[2] :
                 lastOp'.out[1][k].ylm.u
                   = Column(DrawOf(StreamOfCall, NCoef, lastOp'.args[2]), k)
      ]_vars
StreamDisciplineWitness ==
    /\ HasReturned("sample_ylm")
    /\ lastOp.err = NoError
    /\ lastOp.args = <<None, 2>>
    /\ heap[lastOp.id].kind = "sum"
    /\ heap[lastOp.id].random = 2
    /\ streams[2] = [seed |-> 1, draws |-> 1]
    /\ streams[1].draws = 0
    /\ lastOp.out[1][1].u # lastOp.out[1][2].u

\* the settings a composed process takes over from one operand
SameSettings(p, f) ==
    /\ heap[p].normN = heap[f].normN
    /\ heap[p].normzmax = heap[f].normzmax
    /\ heap[p].get_alpha_beta = heap[f].get_alpha_beta
    /\ heap[p].kwargs = heap[f].kwargs
    /\ heap[p].mx = heap[f].mx
    /\ heap[p].my = heap[f].my

\* C29: a composed process has the normalization order and limit, the
\* alpha-beta operator, the extra keyword arguments and the rendering
\* resolution of its first operand; the compositions of two processes in
\* the two orders have the same mean_ylm and cov_ylm.
SettingsFromFirst ==
    \A p \in Procs :
        heap[p].kind = "sum" =>
            /\ SameSettings(p, parents[p][1])
            /\ \A q \in Procs :
                 (heap[q].kind = "sum"
                    /\ parents[q] = <<parents[p][2], parents[p][1]>>) =>
                     /\ heap[q].mean_ylm = heap[p].mean_ylm
                     /\ heap[q].cov_ylm = heap[p].cov_ylm
SettingsFromFirstWitness ==
    /\ Len(heap) = 4
    /\ parents[3] = <<1, 2>>
    /\ parents[4] = <<2, 1>>
    /\ heap[3].mean_ylm = heap[4].mean_ylm
    /\ heap[3].normN # heap[4].normN
    /\ heap[3].mx # heap[4].mx
    /\ heap[3].kwargs # heap[4].kwargs
    /\ heap[1].mean_ylm # heap[2].mean_ylm

\* C30: _normalize takes the infinite covariance only when z is strictly
\* greater than normalization_zmax: at z equal to normalization_zmax it
\* returns the finite covariance of the series, and whenever it returns
\* anything else than the covariance of the series, z is greater than
\* normalization_zmax.
ThresholdStrict ==
    HasReturned("_normalize") =>
        LET mu == lastOp.args[1]
            Sig == lastOp.args[2]
        IN  /\ ExpansionParameter(mu, Sig) = heap[1].normzmax =>
                 /\ lastOp.out[1] = SeriesCovariance(mu, Sig)
                 /\ AllFinite(lastOp.out[1])
            /\ lastOp.out[1] # SeriesCovariance(mu, Sig) =>
                 /\ XGreater(ExpansionParameter(mu, Sig), heap[1].normzmax)
                 /\ lastOp.out[1] = XMatScale(Inf, Sig)
ThresholdStrictWitness ==
    /\ HasReturned("_normalize")
    /\ ExpansionParameter(lastOp.args[1], lastOp.args[2]) = heap[1].normzmax
    /\ Rows(lastOp.args[2]) = 2
    /\ AllFinite(lastOp.out[1])
    /\ lastOp.out[1] # lastOp.args[2]

=============================================================================
